---- MODULE Spec2Model ----
(***************************************************************************)
(* Model of the doc-rag question answering service.                        *)
(*                                                                         *)
(*   Spec       one request at a time through run_hackrx_pipeline          *)
(*              (src/app.py): routing on the document URL, the format      *)
(*              handlers, the short-document fan-out and the RAG answering *)
(*              fan-out under the 40 s budget.                             *)
(*   SpecCache  calls of the answering functions of src/core/rag_pipeline  *)
(*              against the on-disk answer caches, one call at a time,     *)
(*              across documents, addresses and process restarts.          *)
(*   SpecRace   two requests for one document around the index caches.     *)
(*   SpecIndex  InMemoryVectorStore: build_index and search.               *)
(*   SpecParts  the reranker and the query expander, one call each.        *)
(*   SpecStages get_answer's retry loop, and retrieval with the assembly   *)
(*              of the context.                                            *)
(*   SpecChunk  chunk_text over the blocks of a document.                  *)
(*   SpecFiles  the same steps on two worker threads for one question,     *)
(*              with the cancellation of the waiting tasks.                *)
(*   SpecDocs   the index caches and the upload cache by the documents     *)
(*              behind the cache keys, from startup on.                    *)
(*                                                                         *)
(* A text is a sequence of tokens: a word, a whitespace token (" " or      *)
(* "\n") or the Markdown marker "*".  Two word tokens are never adjacent.  *)
(***************************************************************************)
EXTENDS Integers, Naturals, Sequences, FiniteSets, TLC

\* ------------------------------------------------------------------ bounds
MaxQuestions == 2

MaxStageDelay == 20

\* ------------------------------------------------------- program constants
TOTAL_DEADLINE == 40

PAGE_LIMIT == 70

EXCEPTIONS == {16}

SHORT_BUDGET == 3500

\* -------------------------------------------------------------------- texts
SP == " "

None == <<"<None>">>

IsSpace(t) == t \in {" ", "\n"}

RECURSIVE Join(_)
\* " ".join(words)
Join(ws) ==
  IF ws = <<>> THEN <<>>
  ELSE IF Len(ws) = 1 THEN <<ws[1]>>
  ELSE <<ws[1], SP>> \o Join(Tail(ws))

RECURSIVE Repeat(_, _)
\* [x] * n
Repeat(x, n) == IF n = 0 THEN <<>> ELSE <<x>> \o Repeat(x, n - 1)

RECURSIVE DropLeadingSpace(_)
DropLeadingSpace(t) ==
  IF t = <<>> THEN <<>>
  ELSE IF IsSpace(t[1]) THEN DropLeadingSpace(Tail(t))
  ELSE t

RECURSIVE Collapse(_)
\* re.sub(r'\s+', ' ', text)
Collapse(t) ==
  IF t = <<>> THEN <<>>
  ELSE IF IsSpace(t[1]) THEN <<SP>> \o Collapse(DropLeadingSpace(t))
  ELSE <<t[1]>> \o Collapse(Tail(t))

RECURSIVE DropTrailingSpace(_)
DropTrailingSpace(t) ==
  IF t = <<>> THEN <<>>
  ELSE IF IsSpace(t[Len(t)]) THEN DropTrailingSpace(SubSeq(t, 1, Len(t) - 1))
  ELSE t

\* str.strip()
Strip(t) == DropTrailingSpace(DropLeadingSpace(t))

\* utils.clean_text: whitespace runs become one space, then strip.
clean_text(raw_text) == Strip(Collapse(raw_text))

RECURSIVE SplitWords(_)
\* The words left once Markdown markers are rendered away or replaced by a
\* space and the text is split on whitespace.
SplitWords(t) ==
  IF t = <<>> THEN <<>>
  ELSE IF IsSpace(t[1]) \/ t[1] = "*" THEN SplitWords(Tail(t))
  ELSE <<t[1]>> \o SplitWords(Tail(t))

\* utils.clean_markdown: a non-string gives "", otherwise the text without
\* markup as words separated by single spaces.
clean_markdown(md_text) ==
  IF md_text = None THEN <<>> ELSE Join(SplitWords(md_text))

CleanAll(as) == [i \in 1..Len(as) |-> clean_markdown(as[i])]

\* The answer every slot starts with (src/app.py:142).
Sentinel == Join(<<"Processing", "timed", "out", "for", "this", "question.">>)

\* f"An error occurred: {e}"
ErrorString(e) == Join(<<"An", "error", "occurred:">>) \o <<SP>> \o e

\* What the generation model may answer: plain text, or text with markup.
ModelAnswers == { Join(<<"the", "answer">>), <<"*", "*", "answer", "*", "*", "\n">> }

\* str(e) of the exceptions a task may raise.
ExcMessages == { <<"boom">> }

\* ------------------------------------------------------------------- state
VARIABLES
  pc,             \* position of run_hackrx_pipeline
  questions,      \* request.questions
  doc_url,        \* request.documents, by the extension of its path
  branch,         \* the branch the request took
  pdf_content,    \* what download_pdf_content returned
  elapsed,        \* time.time() - start_time
  remaining_time, \* the budget of the answering phase (src/app.py:308)
  answers,        \* the answers list of the function that ran the fan-out
  tasks,          \* the answer tasks, one per question, in creation order
  done,           \* the tasks asyncio.wait found done, in completion order
  genCalls,       \* generation calls made for this request
  via,            \* who called handle_short_document
  response,       \* HackRxResponse.answers
  PDF_CACHE,      \* in-memory index cache: cache key -> vector store
  disk_cache      \* pdf_cache/ directory: cache key -> vector store

handlerVars == <<pc, questions, doc_url, branch, pdf_content, elapsed,
                 remaining_time, answers, tasks, done, genCalls, via, response,
                 PDF_CACHE, disk_cache>>

VARIABLES
  proc,            \* the number of the running server process
  stores,          \* the live vector stores of the process: id() -> document
  files,           \* cache/: path of an answer file -> what was pickled
  expansion_files, \* cache/: path of an expansion file -> the pickled list
  calls            \* the call of an answering function each worker thread runs

cacheVars == <<proc, stores, files, expansion_files, calls>>

VARIABLES
  requests,        \* concurrent requests: what each holds between its awaits
  UPLOADED_FILE_CACHE  \* short_file_llm: cache key -> uploaded file

raceVars == <<requests, UPLOADED_FILE_CACHE>>

VARIABLES
  index,           \* an InMemoryVectorStore: its chunks and its embeddings
  last             \* the last call of a component, with its inputs and result

partVars == <<index, last>>

\* The locals of the single request of run_hackrx_pipeline.
requestVars == <<pc, questions, doc_url, branch, pdf_content, elapsed,
                 remaining_time, answers, tasks, done, genCalls, via, response>>

\* What the actions of the request handler, and what the actions of the
\* answering functions, leave alone.
otherThanHandler == <<cacheVars, raceVars, partVars>>

otherThanCache == <<handlerVars, raceVars, partVars>>

\* ------------------------------------------------------------------ inputs
ImageExts == {".png", ".jpg", ".jpeg"}

\* utils.is_file_url: the extension of the URL path is a known file extension.
is_file_url(url) ==
  url \in {".pdf", ".docx", ".xlsx", ".pptx", ".zip", ".png", ".jpg", ".jpeg"}

\* Request URLs, each standing for its path extension ("" has none).
Urls == {".png", "", ".pptx", ".xlsx", ".docx", ".zip", ".pdf"}

PageCounts == {5, 16, 70}

FirstWords == {"Policy"}

\* A downloaded PDF, by what the handler reads of it.
PdfContents == [pages : PageCounts, first_word : FirstWords]

\* download_pdf_content returned None.
NoContent == [pages |-> -1, first_word |-> ""]

\* document_loader.get_cache_key_from_content
get_cache_key_from_content(content) == <<content.pages, content.first_word>>

CacheKeys == { get_cache_key_from_content(c) : c \in PdfContents }

\* The index built for the document with this cache key.
StoreOf(key) == [store |-> key]

\* The time one awaited stage may take.
Delays == {0, MaxStageDelay}

QuestionText(i) == <<"question", SP, ToString(i)>>

\* The branch order of run_hackrx_pipeline (src/app.py:148-207).
Route(url) ==
  IF url \in ImageExts THEN "image"
  ELSE IF ~is_file_url(url) THEN "website"
  ELSE IF url = ".pptx" THEN "pptx"
  ELSE IF url = ".xlsx" THEN "xlsx"
  ELSE IF url = ".docx" THEN "docx"
  ELSE IF url # ".pdf" THEN "unsupported"
  ELSE "pdf"

\* ---------------------------------------------------------- format handlers
ProcessError ==
  <<"Error:", SP>> \o Join(<<"Could", "not", "process", "document", "or", "generate", "answers.">>)

\* What answer_question of handle_image returns without an answer
\* (src/handlers/image_handler.py:133-145).
ImageMessages ==
  { Join(<<"Model", "response", "blocked", "due", "to:", "SAFETY">>),
    Join(<<"Model", "returned", "no", "response.">>),
    Join(<<"Model", "returned", "an", "empty", "answer.">>),
    Join(<<"Answer", "generation", "failed", "after", "multiple", "retries.">>) }

\* handlers/image_handler.handle_image: the lists it can return.  Without a
\* URL, one message per question; when the download or the wait raises, the
\* processing error per question; otherwise each slot holds what its task
\* returned, the error string of a task that raised, or the timeout sentinel
\* of a task that was not done within the 3500 s (all slots, when the
\* download took them).
handle_image(qs, url) ==
  IF url = ""
    THEN { Repeat(<<"Error:", SP>> \o Join(<<"No", "document", "URL", "provided.">>), Len(qs)) }
    ELSE {Repeat(ProcessError, Len(qs))}
         \cup [1..Len(qs) -> ModelAnswers \cup ImageMessages
                               \cup {ErrorString(e) : e \in ExcMessages}
                               \cup {Sentinel}]

\* handlers/website_handler.answer_from_website: one answer appended per
\* question; answer_single_question returns None when the model call raises.
answer_from_website(qs) ==
  [1..Len(qs) -> ModelAnswers \cup {None}]

\* handlers/xlsx_handler.handle_xlsx
handle_xlsx(qs) ==
  { Repeat(Join(<<"An", "unexpected", "error", "occurred:", "boom">>), Len(qs)) }
  \cup [1..Len(qs) -> ModelAnswers \cup {Sentinel}]

\* The handler does not return: asyncio.wait of an empty task list raises
\* ValueError.  A one-element value that no list of answers is equal to.
ValueErrorRaised == << <<"<ValueError: Set of Tasks/Futures is empty.>">> >>

\* docx_handler.handle_docx: the download error or the extraction error per
\* question; otherwise, with no question, the ValueError of asyncio.wait
\* (lines 127-128, outside any try), and with questions a slot for each:
\* the answer, "No answer generated.", the generation error, or the task
\* error when task.result() raises (a task not done in 3500 s included).
handle_docx(qs) ==
  { Repeat(<<"Error:", SP>> \o Join(<<"Could", "not", "download", "the", "DOCX", "file.">>), Len(qs)),
    Repeat(<<"Error:", SP>> \o Join(<<"Failed", "to", "extract", "content", "from", "DOCX.">>), Len(qs)) }
  \cup IF qs = <<>>
         THEN {ValueErrorRaised}
         ELSE [1..Len(qs) -> ModelAnswers
                             \cup { Join(<<"No", "answer", "generated.">>),
                                    <<"Error:", SP>> \o Join(<<"Failed", "to", "generate", "answer.">>),
                                    <<"Error:", SP>> \o Join(<<"Task", "failed.">>) }]

\* handlers/flight_handler.handle_flight_query: a one-element list, whose
\* element is message.content of the model's last message: a text, or None
\* (src/handlers/flight_handler.py:89-90, 121).
handle_flight_query ==
  { <<Join(<<"Could", "not", "extract", "text", "from", "the", "PDF.">>)>>,
    <<Join(<<"Flight", "number:", "XXX">>)>>,
    <<None>> }

\* HackRxResponse(answers=...) (src/app.py:116-117): answers is List[str],
\* and None is no str.
ValidResponse(as) == \A i \in 1..Len(as) : as[i] # None

\* src/app.py:208
UnsupportedAnswer ==
  Join(<<"Unsupported", "file", "type.", "Please", "provide", "a", "URL", "to", "a",
         "PDF,", "DOCX,", "XLSX,", "or", "image", "file", "(png,", "jpg,", "jpeg).">>)

PptPlaceholder == Join(<<"Answer", "reached", "ppt", "if", "statement", "but", "failed", "later">>)

\* src/app.py:196
DocxPlaceholder == Join(<<"Answer", "reached", "docx", "if", "statement", "but", "failed", "later">>)

\* ------------------------------------------------------------------ fan-out
InSeq(x, s) == \E k \in 1..Len(s) : s[k] = x

\* asyncio.create_task for every question.
CreateTasks(qs) ==
  [i \in 1..Len(qs) |-> [status |-> "running", value |-> <<>>, cancelled |-> FALSE]]

\* task.cancel() for every task that is not done.
CancelPending(tks, dn) ==
  [i \in 1..Len(tks) |->
     IF InSeq(i, dn) THEN tks[i] ELSE [tks[i] EXCEPT !.cancelled = TRUE]]

\* task.result(), or the string the except clause makes of the exception.
Outcome(t) == IF t.status = "ok" THEN t.value ELSE ErrorString(t.value)

\* answers = ["Processing timed out for this question."] * len(questions)
InitialAnswersEmpty(n) == Repeat(<<>>, n)

InitialAnswers(n) == Repeat(Sentinel, n)

RECURSIVE AppLoop(_, _, _, _)
\* for i, task in enumerate(answer_tasks) (src/app.py:332-342)
AppLoop(i, ans, tks, dn) ==
  IF i > Len(tks) THEN ans
  ELSE AppLoop(i + 1,
               IF InSeq(i, dn) /\ ~tks[i].cancelled
                 THEN [ans EXCEPT ![i] = Outcome(tks[i])]
                 ELSE ans,
               tks, dn)

\* Writes the k-th finished task's outcome to slot k.
AccumulateByFinishOrder(ans, tks, dn) ==
  [i \in 1..Len(ans) |-> IF i <= Len(dn) THEN Outcome(tks[dn[i]]) ELSE ans[i]]

RECURSIVE AbortLoop(_, _, _, _)
\* The loop without its inner try: the first failed task ends it.
AbortLoop(i, ans, tks, dn) ==
  IF i > Len(tks) THEN ans
  ELSE IF InSeq(i, dn) /\ tks[i].status = "exc" THEN ans
  ELSE AbortLoop(i + 1,
                 IF InSeq(i, dn) THEN [ans EXCEPT ![i] = Outcome(tks[i])] ELSE ans,
                 tks, dn)

AccumulateAbortOnError(ans, tks, dn) == AbortLoop(1, ans, tks, dn)

\* The accumulation of run_hackrx_pipeline.
AccumulateApp(ans, tks, dn) == AppLoop(1, ans, tks, dn)

RECURSIVE ShortLoop(_, _, _, _)
\* for task in done: temp_answers[task_to_index[task]] = ...
\* (src/short_file_llm.py:262-271); temp is a function on the indexes seen.
ShortLoop(k, temp, tks, dn) ==
  IF k > Len(dn) THEN temp
  ELSE ShortLoop(k + 1,
                 IF tks[dn[k]].cancelled THEN temp
                 ELSE [i \in DOMAIN temp \cup {dn[k]} |->
                         IF i = dn[k] THEN Outcome(tks[dn[k]]) ELSE temp[i]],
                 tks, dn)

\* Keys temp_answers by the position in done.
AccumulateShortByPosition(ans, tks, dn) ==
  [i \in 1..Len(ans) |-> IF i <= Len(dn) THEN Outcome(tks[dn[i]]) ELSE Sentinel]

\* The accumulation of handle_short_document (src/short_file_llm.py:260-274).
AccumulateShort(ans, tks, dn) ==
  LET temp == ShortLoop(1, <<>>, tks, dn)
  IN [i \in 1..Len(ans) |-> IF i \in DOMAIN temp THEN temp[i] ELSE Sentinel]

\* remaining_time <= 0
BudgetExhaustedStrict(remaining) == remaining < 0

BudgetExhausted(remaining) == remaining <= 0

\* ------------------------------------------------------------- answer cache
\* The empty function: no object, no file.
Nothing == <<>>

MaxThreads == 2

\* id(vector_store) is 0 for vector_store = None.
NoStoreId == 0

\* No cache file was read.
NoFile == [text |-> "", by |-> "none", doc |-> "", proc |-> -1]

\* A thread that runs no call.
IdleThread ==
  [fn |-> "none", question |-> "", vs |-> NoStoreId, doc |-> "", proc |-> -1,
   at |-> "idle", expanded |-> <<>>, nExpand |-> 0, nSearch |-> 0,
   nRerank |-> 0, nGen |-> 0, answer |-> "", result |-> "", hit |-> NoFile,
   ragAtCheck |-> NoFile, stages |-> <<>>, expandRaised |-> FALSE,
   fromCache |-> FALSE, searched |-> <<>>, rerankQuery |-> "", cancelled |-> FALSE,
   entryAtInvoke |-> FALSE]

MaxRequests == 2

\* The requests in flight at the same time.
Requests == 1..MaxRequests

\* A request slot that holds no request.
IdleRequest ==
  [pc |-> "idle", content |-> [pages |-> -1, first_word |-> ""],
   vector_store |-> [store |-> <<>>], route |-> "none"]

\* No request has arrived.
RaceStart ==
  /\ requests = [r \in Requests |-> IdleRequest]
  /\ UPLOADED_FILE_CACHE = <<>>

\* InMemoryVectorStore.__init__ (src/vector_store.py:17-19).
EmptyIndex == [chunks |-> <<>>, embeddings |-> <<>>]

\* No component has been called.
NoCall == [fn |-> "none"]

PartsStart ==
  /\ index = EmptyIndex
  /\ last = NoCall

\* A fresh process with an empty cache/ directory.
CacheStart ==
  /\ proc = 0
  /\ stores = Nothing
  /\ files = Nothing
  /\ expansion_files = Nothing
  /\ calls = [t \in 1..MaxThreads |-> IdleThread]

\* ---------------------------------------------------------- request handler
NoBranch == "none"

\* The locals of a request that has not reached them yet.
FreshLocals ==
  /\ branch' = NoBranch
  /\ pdf_content' = NoContent
  /\ elapsed' = 0
  /\ remaining_time' = TOTAL_DEADLINE
  /\ tasks' = <<>>
  /\ done' = <<>>
  /\ genCalls' = 0
  /\ via' = "none"
  /\ response' = <<>>

\* The end of run_hackrx_pipeline (src/app.py:351-364), also reached from its
\* except clauses: the answers are cleaned and returned.
ReturnCleaned(as) ==
  /\ response' = CleanAll(as)
  /\ pc' = "returned"

\* POST /hackrx/run arrives (src/app.py:137-144).
Receive(n, url) ==
  /\ pc = "idle"
  /\ questions' = [i \in 1..n |-> QuestionText(i)]
  /\ doc_url' = url
  /\ answers' = InitialAnswers(n)
  /\ pc' = "dispatch"
  /\ FreshLocals
  /\ UNCHANGED <<PDF_CACHE, disk_cache>>
  /\ UNCHANGED otherThanHandler

\* A branch that calls one format handler and returns what it gave, cleaned.
FormatBranch(kind, results) ==
  /\ pc = "dispatch"
  /\ Route(doc_url) = kind
  /\ \E r \in results :
       /\ answers' = r
       /\ ReturnCleaned(r)
  /\ branch' = kind
  /\ UNCHANGED <<questions, doc_url, pdf_content, elapsed, remaining_time, tasks,
                 done, genCalls, via, PDF_CACHE, disk_cache>>
  /\ UNCHANGED otherThanHandler

\* src/app.py:148-157
ImageBranch == FormatBranch("image", handle_image(questions, doc_url))

\* src/app.py:159-165
WebsiteBranch == FormatBranch("website", answer_from_website(questions))

\* src/app.py:184-193
XlsxBranch == FormatBranch("xlsx", handle_xlsx(questions))

\* src/app.py:195-205: what handle_docx returned, cleaned; when it raised,
\* the except clause of line 347 is passed and the placeholders of line 196
\* are cleaned and returned.
DocxBranch ==
  /\ pc = "dispatch"
  /\ Route(doc_url) = "docx"
  /\ \E r \in handle_docx(questions) :
       /\ answers' = IF r = ValueErrorRaised
                       THEN Repeat(DocxPlaceholder, Len(questions))
                       ELSE r
       /\ ReturnCleaned(answers')
  /\ branch' = "docx"
  /\ UNCHANGED <<questions, doc_url, pdf_content, elapsed, remaining_time, tasks,
                 done, genCalls, via, PDF_CACHE, disk_cache>>
  /\ UNCHANGED otherThanHandler

\* src/app.py:207-211
UnsupportedBranch ==
  FormatBranch("unsupported", {Repeat(UnsupportedAnswer, Len(questions))})

\* src/app.py:167-170 with handlers/ppt_handler.py:37-40: process_query raises
\* (download, conversion), or the converted PDF goes to handle_short_document.
PptxBranch ==
  /\ pc = "dispatch"
  /\ Route(doc_url) = "pptx"
  /\ branch' = "pptx"
  /\ \/ /\ answers' = Repeat(PptPlaceholder, Len(questions))
        /\ ReturnCleaned(answers')
        /\ via' = "none"
     \/ /\ pc' = "short_start"
        /\ via' = "pptx"
        /\ UNCHANGED <<answers, response>>
  /\ UNCHANGED <<questions, doc_url, pdf_content, elapsed, remaining_time, tasks,
                 done, genCalls, PDF_CACHE, disk_cache>>
  /\ UNCHANGED otherThanHandler

\* src/app.py:214-216: the download; without content the HTTPException raised
\* there is caught by the handler's own except clause.
DownloadPdf ==
  /\ pc = "dispatch"
  /\ Route(doc_url) = "pdf"
  /\ \E content \in PdfContents \cup {NoContent}, d \in Delays :
       /\ pdf_content' = content
       /\ elapsed' = elapsed + d
       /\ IF content = NoContent
            THEN /\ branch' = "download_failed"
                 /\ ReturnCleaned(answers)
            ELSE /\ branch' = "pdf"
                 /\ pc' = "downloaded"
                 /\ UNCHANGED response
  /\ UNCHANGED <<questions, doc_url, remaining_time, answers, tasks, done,
                 genCalls, via, PDF_CACHE, disk_cache>>
  /\ UNCHANGED otherThanHandler

\* src/app.py:219-224: classification; a task-based PDF goes to the flight
\* handler, whose list is returned as it is, and whose exception is caught.
\* A list that holds None fails the validation of HackRxResponse; the except
\* clause of line 347 is passed and a.startswith at line 352 raises
\* AttributeError on the None: the handler raises and there is no response.
ClassifyPdf ==
  /\ pc = "downloaded"
  /\ \E d \in Delays : elapsed' = elapsed + d
  /\ \/ /\ branch' = "question-answer-based"
        /\ pc' = "classified"
        /\ UNCHANGED <<answers, response>>
     \/ /\ branch' = "task-based"
        /\ \E r \in handle_flight_query :
             /\ answers' = r
             /\ IF ValidResponse(r)
                  THEN /\ response' = r
                       /\ pc' = "returned"
                  ELSE /\ response' = <<>>
                       /\ pc' = "raised"
     \/ /\ branch' = "task-based-raised"
        /\ ReturnCleaned(answers)
        /\ UNCHANGED answers
  /\ UNCHANGED <<questions, doc_url, pdf_content, remaining_time, tasks, done,
                 genCalls, via, PDF_CACHE, disk_cache>>
  /\ UNCHANGED otherThanHandler

\* PDF_CACHE.get(cache_key), then cache_manager.load_from_cache(cache_key)
\* (src/app.py:268-272); NoStore when neither has it.
NoStore == [store |-> <<>>]

LookupStore(mem, disk, key) ==
  IF key \in DOMAIN mem THEN mem[key]
  ELSE IF key \in DOMAIN disk THEN disk[key]
  ELSE NoStore

\* src/app.py:228-326: page count, the short-document bypass, the index
\* lookup, the budget check and the creation of the answer tasks.
RoutePdf ==
  /\ pc = "classified"
  /\ \E d \in Delays :
       LET now == elapsed + d
           page_count == pdf_content.pages
           cache_key == get_cache_key_from_content(pdf_content)
           vector_store == LookupStore(PDF_CACHE, disk_cache, cache_key)
           remaining == TOTAL_DEADLINE - now
       IN /\ elapsed' = now
          /\ IF page_count < PAGE_LIMIT /\ page_count \notin EXCEPTIONS
               THEN /\ branch' = "short"
                    /\ via' = "short"
                    /\ pc' = "short_start"
                    /\ UNCHANGED <<remaining_time, tasks, response, PDF_CACHE>>
             ELSE IF vector_store = NoStore
               THEN /\ branch' = "index-miss"
                    /\ via' = "miss"
                    /\ pc' = "short_start"
                    /\ UNCHANGED <<remaining_time, tasks, response, PDF_CACHE>>
             ELSE /\ branch' = "rag"
                  /\ PDF_CACHE' = IF cache_key \in DOMAIN PDF_CACHE THEN PDF_CACHE
                                  ELSE [k \in DOMAIN PDF_CACHE \cup {cache_key} |->
                                          IF k = cache_key THEN vector_store
                                          ELSE PDF_CACHE[k]]
                  /\ remaining_time' = remaining
                  /\ UNCHANGED via
                  /\ IF BudgetExhausted(remaining)
                       THEN /\ response' = answers
                            /\ pc' = "returned"
                            /\ UNCHANGED tasks
                       ELSE /\ tasks' = CreateTasks(questions)
                            /\ pc' = "answering"
                            /\ UNCHANGED response
  /\ UNCHANGED <<questions, doc_url, pdf_content, answers, done, genCalls,
                 disk_cache>>
  /\ UNCHANGED otherThanHandler

\* What the caller of handle_short_document makes of its list: the PPTX
\* handler applies clean_text (handlers/ppt_handler.py:44), and every caller
\* in run_hackrx_pipeline applies clean_markdown (src/app.py:181, 238, 278).
AfterShort(caller, as) ==
  CleanAll(IF caller = "pptx" THEN [i \in 1..Len(as) |-> clean_text(as[i])] ELSE as)

\* handle_short_document up to its fan-out (src/short_file_llm.py:137-257):
\* a failed download or upload gives the error list, a spent budget the
\* initial list, otherwise one task is created per question.
ShortPrepare ==
  /\ pc = "short_start"
  /\ \/ /\ answers' = Repeat(ProcessError, Len(questions))
        /\ response' = AfterShort(via, answers')
        /\ pc' = "returned"
        /\ UNCHANGED tasks
     \/ \E spent \in {0, SHORT_BUDGET} :
          IF SHORT_BUDGET - spent <= 0
            THEN /\ answers' = Repeat(Sentinel, Len(questions))
                 /\ response' = AfterShort(via, answers')
                 /\ pc' = "returned"
                 /\ UNCHANGED tasks
            ELSE /\ answers' = Repeat(Sentinel, Len(questions))
                 /\ tasks' = CreateTasks(questions)
                 /\ pc' = "short_answering"
                 /\ UNCHANGED response
  /\ UNCHANGED <<questions, doc_url, branch, pdf_content, elapsed, remaining_time,
                 done, genCalls, via, PDF_CACHE, disk_cache>>
  /\ UNCHANGED otherThanHandler

Answering == pc \in {"answering", "short_answering"}

\* A task reaches its generation call (llm_interface.get_answer in the RAG
\* tasks, model.generate_content in the short-document tasks).  A cancelled
\* coroutine of handle_short_document never reaches it; the worker thread of
\* a cancelled asyncio.to_thread task may still run.
TaskGenerate(i) ==
  /\ Answering \/ pc = "returned"
  /\ i \in 1..Len(tasks)
  /\ tasks[i].status = "running"
  /\ tasks[i].cancelled => via = "none"
  /\ tasks' = [tasks EXCEPT ![i].status = "generating"]
  /\ genCalls' = genCalls + 1
  /\ UNCHANGED <<pc, questions, doc_url, branch, pdf_content, elapsed,
                 remaining_time, answers, done, via, response, PDF_CACHE,
                 disk_cache>>
  /\ UNCHANGED otherThanHandler

\* A task ends with a result (from a cache without a generation call, or
\* from the model) or with an exception.  asyncio.wait sees it only while the
\* handler is still waiting.
TaskFinish(i) ==
  /\ Answering \/ pc = "returned"
  /\ i \in 1..Len(tasks)
  /\ tasks[i].status \in {"running", "generating"}
  /\ tasks[i].cancelled /\ via # "none" => tasks[i].status = "generating"
  /\ \/ \E v \in ModelAnswers :
          tasks' = [tasks EXCEPT ![i].status = "ok", ![i].value = v]
     \/ \E e \in ExcMessages :
          tasks' = [tasks EXCEPT ![i].status = "exc", ![i].value = e]
  /\ done' = IF Answering THEN Append(done, i) ELSE done
  /\ UNCHANGED <<pc, questions, doc_url, branch, pdf_content, elapsed,
                 remaining_time, answers, genCalls, via, response, PDF_CACHE,
                 disk_cache>>
  /\ UNCHANGED otherThanHandler

\* asyncio.wait(answer_tasks, timeout=remaining_time) returns, with every task
\* done or at the timeout, and the handler runs to its return without another
\* await (src/app.py:329-364).
WaitReturns ==
  /\ pc = "answering"
  /\ tasks' = CancelPending(tasks, done)
  /\ answers' = AccumulateApp(answers, tasks, done)
  /\ ReturnCleaned(answers')
  /\ UNCHANGED <<questions, doc_url, branch, pdf_content, elapsed, remaining_time,
                 done, genCalls, via, PDF_CACHE, disk_cache>>
  /\ UNCHANGED otherThanHandler

\* The same in handle_short_document (src/short_file_llm.py:258-286), and the
\* caller's return.
ShortWaitReturns ==
  /\ pc = "short_answering"
  /\ tasks' = CancelPending(tasks, done)
  /\ answers' = AccumulateShort(answers, tasks', done)
  /\ response' = AfterShort(via, answers')
  /\ pc' = "returned"
  /\ UNCHANGED <<questions, doc_url, branch, pdf_content, elapsed, remaining_time,
                 done, genCalls, via, PDF_CACHE, disk_cache>>
  /\ UNCHANGED otherThanHandler

\* The server is ready for the next request, after a response or after the
\* handler raised.
Reset ==
  /\ pc \in {"returned", "raised"}
  /\ pc' = "idle"
  /\ questions' = <<>>
  /\ doc_url' = ""
  /\ answers' = <<>>
  /\ FreshLocals
  /\ UNCHANGED <<PDF_CACHE, disk_cache>>
  /\ UNCHANGED otherThanHandler

\* The cache keys the handler can look up: a document below PAGE_LIMIT pages
\* (and not in EXCEPTIONS) returns before the lookup (src/app.py:231-239).
LookedUpKeys ==
  { k \in CacheKeys : ~(k[1] < PAGE_LIMIT /\ k[1] \notin EXCEPTIONS) }

\* The index caches: a function from some cache keys to their stores.
IndexCaches ==
  { [k \in ks |-> StoreOf(k)] : ks \in SUBSET LookedUpKeys }

\* After on_startup (src/app.py:124-130): PDF_CACHE holds what
\* initialize_cache_from_json loaded or built, the disk holds what this or
\* another instance saved.
Init ==
  /\ pc = "idle"
  /\ questions = <<>>
  /\ doc_url = ""
  /\ answers = <<>>
  /\ branch = NoBranch
  /\ pdf_content = NoContent
  /\ elapsed = 0
  /\ remaining_time = TOTAL_DEADLINE
  /\ tasks = <<>>
  /\ done = <<>>
  /\ genCalls = 0
  /\ via = "none"
  /\ response = <<>>
  /\ PDF_CACHE \in IndexCaches
  /\ disk_cache \in IndexCaches
  /\ CacheStart
  /\ RaceStart
  /\ PartsStart

Next ==
  \/ \E n \in 0..MaxQuestions, url \in Urls : Receive(n, url)
  \/ ImageBranch
  \/ WebsiteBranch
  \/ PptxBranch
  \/ XlsxBranch
  \/ DocxBranch
  \/ UnsupportedBranch
  \/ DownloadPdf
  \/ ClassifyPdf
  \/ RoutePdf
  \/ ShortPrepare
  \/ \E i \in 1..MaxQuestions : TaskGenerate(i)
  \/ \E i \in 1..MaxQuestions : TaskFinish(i)
  \/ WaitReturns
  \/ ShortWaitReturns
  \/ Reset

vars == <<handlerVars, cacheVars, raceVars, partVars>>

Spec == Init /\ [][Next]_vars

\* ------------------------------------------------- answering functions
MaxRestarts == 1

MaxAddrs == 2

\* The documents whose indexes are loaded, and the questions asked.
Docs == {"docA", "docB"}

CacheQuestions == {"q1"}

\* The worker threads that run the answering functions.
Threads == 1..MaxThreads

\* id(vector_store): the address of a live object.
Addrs == 1..MaxAddrs

\* The strings get_answer returns when it has no answer
\* (src/core/llm_interface.py:21, 157, 161).
ErrorAnswers ==
  { "Error: OpenAI client is not initialized. Check your API key.",
    "Error: Could not retrieve an answer after several retries due to rate limits.",
    "Error: Could not retrieve an answer due to an unexpected API error." }

\* What llm_interface.get_answer(context, question) may return at
\* temperature 0: an answer to the question from the context, which is drawn
\* from the document of the store, or is empty on the general-knowledge
\* route; or one of its error strings.  It never raises.
GenResults(context, question) ==
  { "answer to " \o question \o " from [" \o context \o "]" } \cup ErrorAnswers

\* hashlib.sha256(s.encode()).hexdigest(): distinct inputs give distinct
\* digests.
sha256_hexdigest(s) == "sha256(" \o s \o ")"

\* src/core/rag_pipeline.py:25-26
gk_cache_path(question) ==
  "cache/gk_" \o "gk_answer_" \o sha256_hexdigest(question) \o ".pkl"

\* src/core/rag_pipeline.py:60-62: the key ends in str(id(vector_store)).
rag_cache_path(question, vs) ==
  "cache/" \o "rag_answer_" \o sha256_hexdigest(question \o ToString(vs)) \o ".pkl"

\* src/core/rag_pipeline.py:73-74
expansion_cache_path(question) ==
  "cache/" \o "query_expansion_" \o sha256_hexdigest(question) \o ".pkl"

\* GeneralKnowledgeDetector.is_cached_gk: os.path.exists of the gk file.
is_cached_gk(fs, question) == gk_cache_path(question) \in DOMAIN fs

\* What QueryExpander.expand may return for a question: the question with
\* rephrasings behind it, or the question alone after a failed model call
\* (src/query_expander.py:65-82).
Expansions(question) ==
  { <<question, "rephrased 1", "rephrased 2", "rephrased 3">>,
    <<question, "rephrased 4">>,
    <<question>> }

\* f with f[k] = v.
Put(f, k, v) == [x \in DOMAIN f \cup {k} |-> IF x = k THEN v ELSE f[x]]

\* A pickled answer.  Only text is in the file; by, doc and proc record
\* which path wrote it, for a question about which document, in which
\* process.
Pickled(call, path) ==
  [text |-> call.answer, by |-> path, doc |-> call.doc, proc |-> call.proc]

\* A call of _answer_one_question_async (fn = "one") or of
\* _answer_with_general_knowledge (fn = "gk") that has just been entered.
\* doc is the document the question is asked about.
NewCall(fn, question, vs, doc, p) ==
  [IdleThread EXCEPT !.fn = fn, !.question = question, !.vs = vs, !.doc = doc,
                     !.proc = p, !.at = "start"]

\* A call that raised is over like one that returned.
InFlight(call) == call.at \notin {"idle", "returned", "raised"}

\* A file after open(path, "wb") and before pickle.dump has written it.
OpenedFile == [text |-> "", by |-> "open", doc |-> "", proc |-> -1]

OpenedExpansion == <<"<empty file>">>

\* pickle.load of an answer file: EOFError on a file that is still empty.
Loadable(content) == content # OpenedFile

\* pickle.load of an expansion file.
LoadableList(content) == content # OpenedExpansion

\* The call ends with an exception.
Raised(call, e) == [call EXCEPT !.at = "raised", !.result = e]

\* The call returns the pickled content of a cache file.
ReturnFile(call, content) ==
  [call EXCEPT !.at = "returned", !.result = content.text, !.hit = content]

\* The cache file is read: its pickled content is returned, or pickle.load
\* raises on an empty file (src/core/rag_pipeline.py:49-50, 66-67, 149-150,
\* none inside a try).
ReadFile(call, content) ==
  IF Loadable(content) THEN ReturnFile(call, content) ELSE Raised(call, "EOFError")

\* The cache checks without the branch for a call that has no vector store.
CheckedCallAlwaysRetrieves(call, fs) ==
  LET q == call.question
      rag == rag_cache_path(q, call.vs)
  IN IF is_cached_gk(fs, q) THEN ReadFile(call, fs[gk_cache_path(q)])
     ELSE IF rag \in DOMAIN fs THEN ReadFile(call, fs[rag])
     ELSE [call EXCEPT !.at = "expand"]

\* The cache checks at the head of both functions
\* (src/core/rag_pipeline.py:44-67 and 146-151).  ragAtCheck records the RAG
\* answer file of the question and store as the call found it.
CheckedCall(call, fs) ==
  LET q == call.question
      rag == rag_cache_path(q, call.vs)
      seen == [call EXCEPT !.ragAtCheck =
                 IF call.vs # NoStoreId /\ rag \in DOMAIN fs THEN fs[rag] ELSE NoFile]
  IN IF is_cached_gk(fs, q) THEN ReadFile(seen, fs[gk_cache_path(q)])
     ELSE IF call.fn = "gk" \/ call.vs = NoStoreId THEN [seen EXCEPT !.at = "gk_generate"]
     ELSE IF rag \in DOMAIN fs THEN ReadFile(seen, fs[rag])
     ELSE [seen EXCEPT !.at = "expand"]

Min(a, b) == IF a < b THEN a ELSE b

\* A request loads the index of a document (PDF_CACHE holds one object per
\* document); the object gets a free address.
LoadStore(d, a) ==
  /\ a \notin DOMAIN stores
  /\ \A b \in DOMAIN stores : stores[b] # d
  /\ stores' = Put(stores, a, d)
  /\ UNCHANGED <<proc, files, expansion_files, calls>>
  /\ UNCHANGED otherThanCache

\* The server process ends and a new one starts: objects and running calls
\* are gone, cache/ stays.
Restart ==
  /\ proc < MaxRestarts
  /\ proc' = proc + 1
  /\ stores' = Nothing
  /\ calls' = [t \in Threads |-> IdleThread]
  /\ UNCHANGED <<files, expansion_files>>
  /\ UNCHANGED otherThanCache

\* The first free worker thread enters
\* _answer_one_question_async(question, vector_store), with a store or with
\* None, or _answer_with_general_knowledge(question).
StartCall(t, fn, question, vs, d) ==
  /\ ~InFlight(calls[t])
  /\ \A u \in Threads : u < t => InFlight(calls[u])
  /\ fn = "gk" => vs = NoStoreId
  /\ vs # NoStoreId => vs \in DOMAIN stores /\ stores[vs] = d
  /\ calls' = [calls EXCEPT ![t] = NewCall(fn, question, vs, d, proc)]
  /\ UNCHANGED <<proc, stores, files, expansion_files>>
  /\ UNCHANGED otherThanCache

CheckCaches(t) ==
  /\ calls[t].at = "start"
  /\ calls' = [calls EXCEPT ![t] = CheckedCall(calls[t], files)]
  /\ UNCHANGED <<proc, stores, files, expansion_files>>
  /\ UNCHANGED otherThanCache

\* A cancelled worker stops once get_answer has returned.
AfterGenerateStopsIfCancelled(call) ==
  IF call.cancelled THEN "returned"
  ELSE IF call.at = "generate" THEN "rag_open" ELSE "gk_open"

\* The place a call is at once get_answer has returned: before the open of
\* its answer file (src/core/rag_pipeline.py:107-110, 55-56, 153-154).
AfterGenerate(call) == IF call.at = "generate" THEN "rag_open" ELSE "gk_open"

\* llm_interface.get_answer("", question) on the general-knowledge route
\* (src/core/rag_pipeline.py:55 and 153).
GkGenerate(t) ==
  /\ calls[t].at = "gk_generate"
  /\ \E a \in GenResults("", calls[t].question) :
       calls' = [calls EXCEPT ![t].answer = a, ![t].nGen = @ + 1,
                              ![t].at = AfterGenerate(calls[t])]
  /\ UNCHANGED <<proc, stores, files, expansion_files>>
  /\ UNCHANGED otherThanCache

\* The call has gone through one more stage of the pipeline.
StageDone(call, stage) == [call EXCEPT !.stages = Append(@, stage)]

\* The expansion cache is never read.
CachedExpansionIgnored(question, efs) == {}

\* The content of the question's expansion file, if the file exists
\* (src/core/rag_pipeline.py:73-77).
CachedExpansion(question, efs) ==
  LET path == expansion_cache_path(question)
  IN IF path \in DOMAIN efs THEN {efs[path]} ELSE {}

\* The list the question falls back to is pickled like a list expand returned.
FreshExpansionCachesFallback(question) ==
  { [list |-> l, raised |-> FALSE, written |-> TRUE] : l \in Expansions(question) }
  \cup { [list |-> <<question>>, raised |-> TRUE, written |-> TRUE] }

\* The try block of the expansion step (src/core/rag_pipeline.py:80-87):
\* the list expand returns, which is pickled, or, when expand raises, the
\* question alone, with nothing pickled.
FreshExpansion(question) ==
  { [list |-> l, raised |-> FALSE, written |-> TRUE] : l \in Expansions(question) }
  \cup { [list |-> <<question>>, raised |-> TRUE, written |-> FALSE] }

\* os.path.exists(expansion_cache_path) and the load of the file
\* (src/core/rag_pipeline.py:76-79): the load is outside the try.
ExpandCheck(t) ==
  /\ calls[t].at = "expand"
  /\ LET cached == CachedExpansion(calls[t].question, expansion_files)
     IN IF cached = {}
          THEN calls' = [calls EXCEPT ![t].at = "expand_call"]
          ELSE \E list \in cached :
                 calls' = [calls EXCEPT ![t] =
                             IF LoadableList(list)
                               THEN StageDone([@ EXCEPT !.expanded = list,
                                                        !.fromCache = TRUE,
                                                        !.at = "retrieve"], "expansion")
                               ELSE Raised(@, "EOFError")]
  /\ UNCHANGED <<proc, stores, files, expansion_files>>
  /\ UNCHANGED otherThanCache

\* query_expander_model.expand(question) is entered (line 82): a network
\* call, during which other threads run.  entryAtInvoke records whether the
\* expansion file of the question exists at this moment.
ExpandInvoke(t) ==
  /\ calls[t].at = "expand_call"
  /\ calls' = [calls EXCEPT ![t].nExpand = @ + 1, ![t].at = "expanding",
                            ![t].entryAtInvoke =
                              expansion_cache_path(calls[t].question)
                                \in DOMAIN expansion_files]
  /\ UNCHANGED <<proc, stores, files, expansion_files>>
  /\ UNCHANGED otherThanCache

\* expand returns and the expansion file is opened for writing (lines
\* 82-83), or expand raises and the question alone is used (lines 85-87).
ExpandReturns(t) ==
  /\ calls[t].at = "expanding"
  /\ \E e \in FreshExpansion(calls[t].question) :
       IF e.written
         THEN /\ calls' = [calls EXCEPT ![t].expanded = e.list,
                                        ![t].expandRaised = e.raised,
                                        ![t].at = "expansion_dump"]
              /\ expansion_files' = Put(expansion_files,
                                        expansion_cache_path(calls[t].question),
                                        OpenedExpansion)
         ELSE /\ calls' = [calls EXCEPT ![t] =
                             StageDone([@ EXCEPT !.expanded = e.list,
                                                 !.expandRaised = e.raised,
                                                 !.at = "retrieve"], "expansion")]
              /\ UNCHANGED expansion_files
  /\ UNCHANGED <<proc, stores, files>>
  /\ UNCHANGED otherThanCache

\* pickle.dump(expanded_questions, f) and the close (line 84)
ExpansionDump(t) ==
  /\ calls[t].at = "expansion_dump"
  /\ expansion_files' = Put(expansion_files, expansion_cache_path(calls[t].question),
                            calls[t].expanded)
  /\ calls' = [calls EXCEPT ![t] = StageDone([@ EXCEPT !.at = "retrieve"], "expansion")]
  /\ UNCHANGED <<proc, stores, files>>
  /\ UNCHANGED otherThanCache

\* Every expanded question is searched.
SearchedQueriesAll(expanded_questions) == expanded_questions

\* expanded_questions[:3] (src/core/rag_pipeline.py:91)
SearchedQueries(expanded_questions) ==
  SubSeq(expanded_questions, 1, Min(3, Len(expanded_questions)))

\* The reranker is given the last expanded question.
RerankQueryLastExpanded(call) == call.expanded[Len(call.expanded)]

\* The query of reranker_model.rerank(question, ...) (src/core/rag_pipeline.py:100)
RerankQuery(call) == call.question

\* Retrieval and reranking (src/core/rag_pipeline.py:90-100): one search for
\* each of the first three expanded questions, then one rerank.
Retrieve(t) ==
  /\ calls[t].at = "retrieve"
  /\ calls' = [calls EXCEPT ![t] =
                 StageDone(StageDone(
                   [@ EXCEPT !.nSearch = @ + Len(SearchedQueries(calls[t].expanded)),
                             !.searched = SearchedQueries(calls[t].expanded),
                             !.nRerank = @ + 1,
                             !.rerankQuery = RerankQuery(calls[t]),
                             !.expanded = <<>>,
                             !.at = "generate"], "search"), "rerank")]
  /\ UNCHANGED <<proc, stores, files, expansion_files>>
  /\ UNCHANGED otherThanCache

\* llm_interface.get_answer(context, question) with the context retrieved
\* from the store's document (src/core/rag_pipeline.py:106-107).
Generate(t) ==
  /\ calls[t].at = "generate"
  /\ \E a \in GenResults(calls[t].doc, calls[t].question) :
       calls' = [calls EXCEPT ![t] =
                   StageDone([@ EXCEPT !.answer = a, !.nGen = @ + 1,
                                       !.at = AfterGenerate(calls[t])], "generation")]
  /\ UNCHANGED <<proc, stores, files, expansion_files>>
  /\ UNCHANGED otherThanCache

\* The answer file a call writes: final_answer_cache_path on the RAG path,
\* the gk file otherwise.
AnswerPath(call) ==
  IF call.at \in {"rag_open", "rag_dump"} THEN rag_cache_path(call.question, call.vs)
  ELSE gk_cache_path(call.question)

\* pickle.dump(answer, f): whatever get_answer returned
\* (src/core/rag_pipeline.py:110-111 and 119-121).
StoredAnswer(call, path) == Pickled(call, path)

\* open(path, "wb") of the answer file (src/core/rag_pipeline.py:110 and
\* 120): the file is there and empty.
AnswerOpen(t) ==
  /\ calls[t].at \in {"rag_open", "gk_open"}
  /\ files' = Put(files, AnswerPath(calls[t]), OpenedFile)
  /\ calls' = [calls EXCEPT ![t].at = IF calls[t].at = "rag_open" THEN "rag_dump"
                                      ELSE "gk_dump"]
  /\ UNCHANGED <<proc, stores, expansion_files>>
  /\ UNCHANGED otherThanCache

\* pickle.dump(answer, f), the close and the return
\* (src/core/rag_pipeline.py:111-113, 121, 57 and 155).
AnswerDump(t) ==
  /\ calls[t].at \in {"rag_dump", "gk_dump"}
  /\ files' = Put(files, AnswerPath(calls[t]),
                  StoredAnswer(calls[t], IF calls[t].at = "rag_dump" THEN "rag" ELSE "gk"))
  /\ calls' = [calls EXCEPT ![t] =
                 LET returned == [@ EXCEPT !.at = "returned", !.result = calls[t].answer,
                                           !.answer = ""]
                 IN IF calls[t].at = "rag_dump" THEN StageDone(returned, "cache write")
                    ELSE returned]
  /\ UNCHANGED <<proc, stores, expansion_files>>
  /\ UNCHANGED otherThanCache

\* The request's budget ends and the task that waits for the worker thread
\* is cancelled (src/app.py:329-341), wherever the thread is in the
\* function: the thread of asyncio.to_thread is not stopped and goes on.
Cancel(t) ==
  /\ InFlight(calls[t])
  /\ ~calls[t].cancelled
  /\ calls' = [calls EXCEPT ![t].cancelled = TRUE]
  /\ UNCHANGED <<proc, stores, files, expansion_files>>
  /\ UNCHANGED otherThanCache

\* A process that has handled no request, with the index caches empty.
InitCache ==
  /\ pc = "idle"
  /\ questions = <<>>
  /\ doc_url = ""
  /\ answers = <<>>
  /\ branch = NoBranch
  /\ pdf_content = NoContent
  /\ elapsed = 0
  /\ remaining_time = TOTAL_DEADLINE
  /\ tasks = <<>>
  /\ done = <<>>
  /\ genCalls = 0
  /\ via = "none"
  /\ response = <<>>
  /\ PDF_CACHE = Nothing
  /\ disk_cache = Nothing
  /\ CacheStart
  /\ RaceStart
  /\ PartsStart

\* One worker thread at a time calls here, across documents, addresses and
\* process runs; two threads on one question interleave under SpecFiles.
CacheThreads == {1}

NextCache ==
  \/ \E d \in Docs, a \in Addrs : LoadStore(d, a)
  \/ Restart
  \/ \E t \in CacheThreads, fn \in {"one", "gk"}, q \in CacheQuestions,
        vs \in Addrs \cup {NoStoreId}, d \in Docs : StartCall(t, fn, q, vs, d)
  \/ \E t \in CacheThreads : CheckCaches(t)
  \/ \E t \in CacheThreads : GkGenerate(t)
  \/ \E t \in CacheThreads : ExpandCheck(t)
  \/ \E t \in CacheThreads : ExpandInvoke(t)
  \/ \E t \in CacheThreads : ExpandReturns(t)
  \/ \E t \in CacheThreads : ExpansionDump(t)
  \/ \E t \in CacheThreads : Retrieve(t)
  \/ \E t \in CacheThreads : Generate(t)
  \/ \E t \in CacheThreads : AnswerOpen(t)
  \/ \E t \in CacheThreads : AnswerDump(t)

SpecCache == InitCache /\ [][NextCache]_vars

\* ------------------------------------------------- concurrent requests
\* Requests of one event loop interleave at their awaits only; what a
\* request does between two awaits is one step.

\* f with f[k] = v when k is not in f: if cache_key not in PDF_CACHE
\* (src/app.py:289-290).
InsertIfAbsent(f, k, v) == IF k \in DOMAIN f THEN f ELSE Put(f, k, v)

\* A request for a question-answer PDF arrives and awaits the download, the
\* classification and the page count (src/app.py:214-228).
RaceArrive(r, content) ==
  /\ requests[r].pc = "idle"
  /\ requests' = [requests EXCEPT ![r] = [IdleRequest EXCEPT !.pc = "counted",
                                                             !.content = content]]
  /\ UNCHANGED <<PDF_CACHE, disk_cache>>
  /\ UNCHANGED <<requestVars, cacheVars, partVars, UPLOADED_FILE_CACHE>>

\* From the page count to the next await (src/app.py:231-329): the short
\* bypass, the lookup in PDF_CACHE and on disk, the insertion into PDF_CACHE
\* and, with budget left, the creation of the answer tasks.
RaceLookup(r, late) ==
  /\ requests[r].pc = "counted"
  /\ LET page_count == requests[r].content.pages
         cache_key == get_cache_key_from_content(requests[r].content)
         vector_store == LookupStore(PDF_CACHE, disk_cache, cache_key)
     IN IF page_count < PAGE_LIMIT /\ page_count \notin EXCEPTIONS
          THEN /\ requests' = [requests EXCEPT ![r].pc = "short", ![r].route = "short"]
               /\ UNCHANGED PDF_CACHE
        ELSE IF vector_store = NoStore
          THEN /\ requests' = [requests EXCEPT ![r].pc = "short",
                                               ![r].route = "index-miss"]
               /\ UNCHANGED PDF_CACHE
        ELSE /\ PDF_CACHE' = InsertIfAbsent(PDF_CACHE, cache_key, vector_store)
             /\ requests' = [requests EXCEPT
                               ![r].pc = IF late THEN "returned" ELSE "answering",
                               ![r].route = "rag",
                               ![r].vector_store = vector_store]
  /\ UNCHANGED disk_cache
  /\ UNCHANGED <<requestVars, cacheVars, partVars, UPLOADED_FILE_CACHE>>

\* handle_short_document returns and the request returns its answers
\* (src/app.py:233-239 and 277-284).
RaceShortReturns(r) ==
  /\ requests[r].pc = "short"
  /\ requests' = [requests EXCEPT ![r].pc = "returned"]
  /\ UNCHANGED <<PDF_CACHE, disk_cache>>
  /\ UNCHANGED <<requestVars, cacheVars, partVars, UPLOADED_FILE_CACHE>>

\* asyncio.wait returns and the request returns its answers
\* (src/app.py:329-364).
RaceWaitReturns(r) ==
  /\ requests[r].pc = "answering"
  /\ requests' = [requests EXCEPT ![r].pc = "returned"]
  /\ UNCHANGED <<PDF_CACHE, disk_cache>>
  /\ UNCHANGED <<requestVars, cacheVars, partVars, UPLOADED_FILE_CACHE>>

\* The response is sent.
RaceDone(r) ==
  /\ requests[r].pc = "returned"
  /\ requests' = [requests EXCEPT ![r] = IdleRequest]
  /\ UNCHANGED <<PDF_CACHE, disk_cache>>
  /\ UNCHANGED <<requestVars, cacheVars, partVars, UPLOADED_FILE_CACHE>>

InitRace == Init

NextRace ==
  \/ \E r \in Requests, content \in PdfContents : RaceArrive(r, content)
  \/ \E r \in Requests, late \in BOOLEAN : RaceLookup(r, late)
  \/ \E r \in Requests : RaceShortReturns(r)
  \/ \E r \in Requests : RaceWaitReturns(r)
  \/ \E r \in Requests : RaceDone(r)

SpecRace == InitRace /\ [][NextRace]_vars

\* ------------------------------------------------------- vector store
BATCH_SIZE == 100

\* The dimension of a text-embedding-3-small vector and of the fallback
\* vector (src/vector_store.py:44).
EMBED_DIM == 1536

MaxChunks == 3

MaxTopK == 3

\* Chunk texts: two with words, the empty string and a blank one.
ChunkTexts == { <<"alpha">>, <<"beta">>, <<>>, <<SP>> }

\* Every chunk list of up to MaxChunks chunks.
ShortChunkLists == UNION { [1..n -> ChunkTexts] : n \in 0..MaxChunks }

\* Chunk lists that fill one batch, one batch and one more, two and one more.
LongLengths == { BATCH_SIZE, BATCH_SIZE + 1, 2 * BATCH_SIZE + 1 }

LongChunkList(n) == [i \in 1..n |-> IF i % 2 = 1 THEN <<"alpha">> ELSE <<"beta">>]

ChunkLists == ShortChunkLists \cup { LongChunkList(n) : n \in LongLengths }

Queries == { <<"alpha">>, <<"gamma">>, <<SP>> }

\* record.embedding of the provider for a text, by its direction.
ProviderVector(t) ==
  [dim |-> EMBED_DIM,
   v |-> IF t = <<"alpha">> THEN <<1, 0>>
         ELSE IF t = <<"beta">> THEN <<0, 1>>
         ELSE <<1, 1>>]

\* [0.0] * 1536
ZeroVector == [dim |-> EMBED_DIM, v |-> <<0, 0>>]

\* isinstance(t, str) and t.strip()
Sendable(t) == Strip(t) # <<>>

\* [record.embedding for record in response.data]
ProviderVectors(batch) == [i \in 1..Len(batch) |-> ProviderVector(batch[i])]

\* A fallback of one zero vector for the whole batch.
FallbackOneVector(batch) == <<ZeroVector>>

\* [[0.0] * 1536] * len(batch)
FallbackVectors(batch) == [i \in 1..Len(batch) |-> ZeroVector]

\* The number of the batch that starts at offset i.
BatchNo(i) == i \div BATCH_SIZE + 1

RECURSIVE EmbedLoop(_, _, _, _)
\* for i in range(0, len(texts), BATCH_SIZE) (src/vector_store.py:31-45);
\* failing holds the numbers of the batches whose call raises, acc the
\* embeddings so far and the batches sent.
EmbedLoop(i, texts, failing, acc) ==
  IF i >= Len(texts) THEN acc
  ELSE LET batch == SubSeq(texts, i + 1, Min(i + BATCH_SIZE, Len(texts)))
           got == IF BatchNo(i) \in failing THEN FallbackVectors(batch)
                  ELSE ProviderVectors(batch)
       IN EmbedLoop(i + BATCH_SIZE, texts, failing,
                    [embeddings |-> acc.embeddings \o got,
                     batches |-> Append(acc.batches, batch)])

\* InMemoryVectorStore._embed_texts
embed_texts(texts, failing) ==
  IF texts = <<>> THEN [embeddings |-> <<>>, batches |-> <<>>]
  ELSE EmbedLoop(0, SelectSeq(texts, Sendable), failing,
                 [embeddings |-> <<>>, batches |-> <<>>])

\* The batches a chunk list can need.
BatchesOf(chunks) == 1..BatchNo(Len(chunks))

\* The new lists are put behind the old ones.
BuiltIndexAppended(old, chunks, embeddings) ==
  [chunks |-> old.chunks \o chunks, embeddings |-> old.embeddings \o embeddings]

\* self.chunks = chunks; self.embeddings = ... (src/vector_store.py:48-49)
BuiltIndex(old, chunks, embeddings) == [chunks |-> chunks, embeddings |-> embeddings]

\* InMemoryVectorStore.build_index (src/vector_store.py:47-49)
build_index(chunks, failing) ==
  /\ LET e == embed_texts(chunks, failing)
     IN /\ index' = BuiltIndex(index, chunks, e.embeddings)
        /\ last' = [fn |-> "build_index", failing |-> failing, batches |-> e.batches,
                    chunks |-> chunks, before |-> index]
  /\ UNCHANGED <<handlerVars, cacheVars, raceVars>>

Dot(a, b) == a[1] * b[1] + a[2] * b[2]

\* sklearn's cosine_similarity of two vectors with non-negative components,
\* as four times its square, which orders as the cosine does; a vector of
\* norm zero has similarity 0 to everything.
cosine_similarity(a, b) ==
  IF Dot(a.v, a.v) = 0 \/ Dot(b.v, b.v) = 0 THEN 0
  ELSE (4 * Dot(a.v, b.v) * Dot(a.v, b.v)) \div (Dot(a.v, a.v) * Dot(b.v, b.v))

\* The permutations of 1..n.
IndexOrders(n) ==
  { p \in [1..n -> 1..n] : \A i, j \in 1..n : p[i] = p[j] => i = j }

\* np.argsort(similarities): the indices in ascending order of similarity;
\* the default sort is not stable, equal values come in any order.
ArgSorts(similarities) ==
  { p \in IndexOrders(Len(similarities)) :
      \A i, j \in 1..Len(similarities) :
        i < j => similarities[p[i]] <= similarities[p[j]] }

\* a[-k:] of Python for k >= 0: the last k elements, and all of a for k = 0.
LastK(a, k) ==
  IF k = 0 \/ k >= Len(a) THEN a ELSE SubSeq(a, Len(a) - k + 1, Len(a))

\* a[::-1]
Reversed(a) == [i \in 1..Len(a) |-> a[Len(a) + 1 - i]]

\* InMemoryVectorStore.search (src/vector_store.py:51-58).  query_fails: the
\* embedding call for the query raises and the zero vector is used.
search(query, top_k, query_fails) ==
  /\ Len(index.chunks) <= MaxChunks
  /\ LET called == [fn |-> "search", query |-> query, top_k |-> top_k,
                    raised |-> "", similarities |-> <<>>, indices |-> <<>>,
                    result |-> <<>>]
         sent == SelectSeq(<<query>>, Sendable)
     IN IF index.embeddings = <<>> THEN last' = called
        ELSE IF sent = <<>> THEN last' = [called EXCEPT !.raised = "IndexError"]
        ELSE LET query_embedding ==
                   embed_texts(<<query>>, IF query_fails THEN {1} ELSE {}).embeddings[1]
                 similarities ==
                   [i \in 1..Len(index.embeddings) |->
                      cosine_similarity(query_embedding, index.embeddings[i])]
             IN \E sorted \in ArgSorts(similarities) :
                  LET top_k_indices == Reversed(LastK(sorted, top_k))
                  IN last' = [called EXCEPT
                                !.similarities = similarities,
                                !.indices = top_k_indices,
                                !.result = [i \in 1..Len(top_k_indices) |->
                                              index.chunks[top_k_indices[i]]]]
  /\ UNCHANGED index
  /\ UNCHANGED <<handlerVars, cacheVars, raceVars>>

InitIndex == InitCache

\* A new store is built once (src/core/rag_pipeline.py:161-162).
BuildCall ==
  /\ last = NoCall
  /\ \E chunks \in ChunkLists : \E failing \in SUBSET BatchesOf(chunks) :
       build_index(chunks, failing)

\* A search of the built store; search leaves the store as it is, so every
\* later search has the same choices.
SearchCall ==
  /\ last.fn \in {"build_index", "search"}
  /\ \E query \in Queries, top_k \in 0..MaxTopK, query_fails \in BOOLEAN :
       search(query, top_k, query_fails)

\* The lists a store that is built already is built with again.
RebuildLists == { <<>>, <<<<"beta">>>>, <<<<"alpha">>, <<"beta">>, <<"alpha">>>> }

\* build_index is called on a store that has an index: nothing in the class
\* prevents it.
RebuildCall ==
  /\ last.fn = "build_index"
  /\ last.before = EmptyIndex
  /\ \E chunks \in RebuildLists : \E failing \in {{}, BatchesOf(chunks)} :
       build_index(chunks, failing)

NextIndex ==
  \/ BuildCall
  \/ SearchCall
  \/ RebuildCall

SpecIndex == InitIndex /\ [][NextIndex]_vars

\* ------------------------------------------- reranker and query expander
MaxCandidates == 3

MaxRephrasings == 3

\* The documents handed to rerank: every list of up to MaxCandidates.
Candidates == { "chunk a", "chunk b", "chunk c" }

CandidateLists == UNION { [1..n -> Candidates] : n \in 0..MaxCandidates }

\* What CrossEncoder.predict may score a [query, document] pair.
RerankScores == { -1, 0, 1 }

\* The slice that takes everything for top_k = 0.
FirstKOrAll(a, k) == IF k = 0 THEN a ELSE SubSeq(a, 1, Min(k, Len(a)))

\* scored_docs[:top_k] for top_k >= 0
FirstK(a, k) == SubSeq(a, 1, Min(k, Len(a)))

\* How many of the leading elements of a list sorted by descending score
\* have a score of at least x, and how many a greater one.
NotBelow(sorted, x) == Cardinality({ i \in 1..Len(sorted) : sorted[i].score >= x.score })

Above(sorted, x) == Cardinality({ i \in 1..Len(sorted) : sorted[i].score > x.score })

\* x is put in front of the elements that have its score.
InsertBeforeEquals(sorted, x) ==
  SubSeq(sorted, 1, Above(sorted, x)) \o <<x>>
    \o SubSeq(sorted, Above(sorted, x) + 1, Len(sorted))

\* x is put behind the elements that have its score: list.sort is stable,
\* with reverse=True too.
InsertStable(sorted, x) ==
  SubSeq(sorted, 1, NotBelow(sorted, x)) \o <<x>>
    \o SubSeq(sorted, NotBelow(sorted, x) + 1, Len(sorted))

RECURSIVE SortedByScore(_)
\* scored_docs.sort(key=lambda x: x[0], reverse=True)
SortedByScore(scored) ==
  IF scored = <<>> THEN <<>>
  ELSE InsertStable(SortedByScore(SubSeq(scored, 1, Len(scored) - 1)),
                    scored[Len(scored)])

\* Reranker.rerank (src/core/reranker.py:19-47); score_of is what the model
\* predicts for each document with this query.  at is the position a
\* document had in the candidate list.
rerank(query, documents, score_of, top_k) ==
  /\ LET scored_docs == [i \in 1..Len(documents) |->
                           [score |-> score_of[documents[i]], doc |-> documents[i],
                            at |-> i]]
         top == FirstK(SortedByScore(scored_docs), top_k)
     IN last' = [fn |-> "rerank", query |-> query, documents |-> documents,
                 top_k |-> top_k,
                 scores |-> [i \in 1..Len(documents) |-> score_of[documents[i]]],
                 predict_calls |-> IF documents = <<>> THEN 0 ELSE 1,
                 picked |-> IF documents = <<>> THEN <<>> ELSE top,
                 result |-> IF documents = <<>> THEN <<>>
                            ELSE [i \in 1..Len(top) |-> top[i].doc]]
  /\ UNCHANGED index
  /\ UNCHANGED <<handlerVars, cacheVars, raceVars>>

ExpandQueries == { "what is covered", "", "q" }

Rephrasings == { "rephrased a", "rephrased b" }

\* What the call of the Gemini API may give expand (src/query_expander.py:
\* 48-79): a failed request, a body without candidates, a text that is not
\* JSON, JSON that is not a list, a list, or a body that makes the code raise
\* an exception it does not catch (result is not a dict).
ModelReplies ==
  [kind : {"request failed", "no candidates", "not json", "not a list", "not a dict"},
   items : {<<>>}]
  \cup [kind : {"list"},
        items : UNION { [1..n -> Rephrasings] : n \in 0..MaxRephrasings }]

\* The list without the original query.
WithoutOriginal(query, expanded_queries) == expanded_queries

\* [query] + expanded_queries
WithOriginal(query, expanded_queries) == <<query>> \o expanded_queries

\* QueryExpander.expand (src/query_expander.py:14-82)
expand(query, reply) ==
  /\ last' = [fn |-> "expand", query |-> query, reply |-> reply,
              raised |-> reply.kind = "not a dict",
              result |-> IF reply.kind = "list" THEN WithOriginal(query, reply.items)
                         ELSE IF reply.kind = "not a dict" THEN <<>>
                         ELSE <<query>>]
  /\ UNCHANGED index
  /\ UNCHANGED <<handlerVars, cacheVars, raceVars>>

InitParts == InitCache

\* The reranker and the expander keep no state between calls: one call of
\* either, with any arguments.
RerankCall ==
  /\ last = NoCall
  /\ \E query \in ExpandQueries, documents \in CandidateLists,
        score_of \in [Candidates -> RerankScores], top_k \in 0..MaxTopK :
       rerank(query, documents, score_of, top_k)

ExpandCall ==
  /\ last = NoCall
  /\ \E query \in ExpandQueries, reply \in ModelReplies : expand(query, reply)

NextParts ==
  \/ RerankCall
  \/ ExpandCall

SpecParts == InitParts /\ [][NextParts]_vars

\* ------------------------------------------------------ answer generation
max_retries == 5

initial_wait == 1

\* The questions put to get_answer: one of each list of hardcoded questions,
\* one that names a Newton keyword, one that is a substring match only, and
\* one that matches nothing.
AnswerQuestions ==
  { "Who was the grandfather of Isaac Newton?",
    " Did Isaac Newton have any descendants? ",
    "Documents needed for hospitalization claim",
    "Which JS library is covered?",
    "What are the laws of motion?",
    "What is the waiting period?" }

\* question.lower().strip() (src/core/llm_interface.py:23)
question_lower(question) ==
  CASE question = "Who was the grandfather of Isaac Newton?"
         -> "who was the grandfather of isaac newton?"
    [] question = " Did Isaac Newton have any descendants? "
         -> "did isaac newton have any descendants?"
    [] question = "Documents needed for hospitalization claim"
         -> "documents needed for hospitalization claim"
    [] question = "Which JS library is covered?" -> "which js library is covered?"
    [] question = "What are the laws of motion?" -> "what are the laws of motion?"
    [] OTHER -> "what is the waiting period?"

\* The substrings of a lowered question that get_answer tests for
\* (src/core/llm_interface.py:54-73).
SubstringsOf(lowered) ==
  CASE lowered = "who was the grandfather of isaac newton?" -> {"newton", "isaac newton"}
    [] lowered = "did isaac newton have any descendants?" -> {"newton", "isaac newton"}
    [] lowered = "documents needed for hospitalization claim"
         -> {"documents", "hospitalization"}
    [] lowered = "which js library is covered?" -> {"js"}
    [] lowered = "what are the laws of motion?" -> {"laws of motion"}
    [] OTHER -> {}

newton_keywords ==
  { "newton", "principia", "laws of motion", "kepler", "gravity", "gravitational",
    "centripetal", "absolute space", "isaac newton", "planetary orbits",
    "resisting media" }

hospitalization_doc_queries ==
  { "give me a list of documents to be uploaded for hospitalization for heart surgery.",
    "give me a list of documents to be uploaded for hospitalization.",
    "what documents are required for hospitalization?",
    "documents needed for hospitalization claim",
    "documents to upload for hospital admission",
    "required documents for hospitalization reimbursement",
    "hospitalization claim documents",
    "documents for heart surgery hospitalization" }

\* The answers get_answer gives without a call of the model
\* (src/core/llm_interface.py:20-66); None when the model is to be called.
HardcodedAnswer(question, has_client) ==
  LET lowered == question_lower(question)
  IN IF ~has_client
       THEN <<"Error: OpenAI client is not initialized. Check your API key.">>
     ELSE IF lowered \in { "who was the grandfather of isaac newton?",
                           "name the grandfather of isaac newton" }
       THEN <<"Isaac Newton's grandfather was Robert Newton.">>
     ELSE IF lowered \in { "do we know any other descent of isaac newton apart from his grandfather?",
                           "did isaac newton have any descendants?",
                           "any known descendants of isaac newton?" }
       THEN <<"No, Isaac Newton did not have any descendants. He never married and had no children, so he left no direct lineage.">>
     ELSE IF \/ lowered \in hospitalization_doc_queries
             \/ {"documents", "hospitalization"} \subseteq SubstringsOf(lowered)
       THEN <<"\n            ",
              "A duly completed claim form, Photo identity proof of the patient, A prescription from the medical practitioner advising admission, Original bills with an itemized break-up, Payment receipts, Discharge summary including the complete medical history of the patient and other relevant details, Investigation or diagnostic test reports supported by the prescription from the attending medical practitioner, Operation theatre notes or a certificate from the surgeon detailing the operation performed (for surgical cases), Sticker or invoice of the implants wherever applicable, A copy of the Medico Legal Report (MLR) if conducted and the First Information Report (FIR) if registered wherever applicable, NEFT details along with a cancelled cheque to facilitate direct credit of the claim amount, KYC documents (identity and address proof) of the proposer if the claim liability exceeds Rs. 1 lakh as per AML guidelines, Legal heir or succession certificate wherever applicable, Any other relevant documents required by the company or TPA for claim assessment.",
              "\n            ">>
     ELSE IF "js" \in SubstringsOf(lowered)
       THEN <<"Answer not present in documents">>
     ELSE None

\* Which of the six prompts is sent (src/core/llm_interface.py:73-113).
PromptFor(context, question, use_gk_timeout) ==
  [newton |-> SubstringsOf(question_lower(question)) \cap newton_keywords # {},
   kind |-> IF Strip(context) = <<>> \/ use_gk_timeout
              THEN IF use_gk_timeout THEN "general knowledge only" ELSE "no context"
              ELSE "with context"]

RECURSIVE Pow2(_)
Pow2(i) == IF i = 0 THEN 1 ELSE 2 * Pow2(i - 1)

\* What client.chat.completions.create may do at one attempt.
CreateOutcomes == {"ok", "RateLimitError", "Exception"}

ModelContents == { <<"two", SP, "years">>, <<SP, "two", SP, "years", "\n">> }

AnswerContexts == { <<>>, <<SP>>, <<"clause", SP, "four">> }

RateLimitMessage ==
  <<"Error: Could not retrieve an answer after several retries due to rate limits.">>

ApiErrorMessage ==
  <<"Error: Could not retrieve an answer due to an unexpected API error.">>

\* Every error of the model call is retried like RateLimitError.
AttemptRetriesAll(call, outcome, content) ==
  IF outcome = "ok"
    THEN [call EXCEPT !.at = "returned", !.outcomes = Append(@, outcome),
                      !.result = Strip(content)]
  ELSE IF call.i = max_retries - 1
    THEN [call EXCEPT !.at = "returned", !.outcomes = Append(@, outcome),
                      !.waits = Append(@, initial_wait * Pow2(call.i)),
                      !.result = RateLimitMessage]
  ELSE [call EXCEPT !.i = @ + 1, !.outcomes = Append(@, outcome),
                    !.waits = Append(@, initial_wait * Pow2(call.i))]

\* One pass of the retry loop (src/core/llm_interface.py:117-161).  The sleep
\* is initial_wait * 2^i plus a random part below one second, which is left
\* out.  The loop never ends without a return: the pass with
\* i = max_retries - 1 returns on every outcome, so line 163 is not reached.
Attempt(call, outcome, content) ==
  IF outcome = "ok"
    THEN [call EXCEPT !.at = "returned", !.outcomes = Append(@, outcome),
                      !.result = Strip(content)]
  ELSE IF outcome = "RateLimitError"
    THEN IF call.i = max_retries - 1
           THEN [call EXCEPT !.at = "returned", !.outcomes = Append(@, outcome),
                             !.waits = Append(@, initial_wait * Pow2(call.i)),
                             !.result = RateLimitMessage]
           ELSE [call EXCEPT !.i = @ + 1, !.outcomes = Append(@, outcome),
                             !.waits = Append(@, initial_wait * Pow2(call.i))]
  ELSE [call EXCEPT !.at = "returned", !.outcomes = Append(@, outcome),
                    !.result = ApiErrorMessage]

\* get_answer up to the retry loop (src/core/llm_interface.py:15-116).
get_answer(context, question, use_gk_timeout, has_client) ==
  /\ LET hard == HardcodedAnswer(question, has_client)
         called == [fn |-> "get_answer", context |-> context, question |-> question,
                    use_gk_timeout |-> use_gk_timeout, has_client |-> has_client,
                    prompt |-> None, i |-> 0, outcomes |-> <<>>, waits |-> <<>>,
                    at |-> "returned", result |-> <<>>]
     IN IF hard # None THEN last' = [called EXCEPT !.result = hard]
        ELSE last' = [called EXCEPT !.at = "loop",
                                    !.prompt = PromptFor(context, question, use_gk_timeout)]
  /\ UNCHANGED index
  /\ UNCHANGED <<handlerVars, cacheVars, raceVars>>

GetAnswerCall ==
  /\ last = NoCall
  /\ \E context \in AnswerContexts, question \in AnswerQuestions,
        use_gk_timeout \in BOOLEAN, has_client \in BOOLEAN :
       get_answer(context, question, use_gk_timeout, has_client)

GetAnswerAttempt ==
  /\ last.fn = "get_answer"
  /\ last.at = "loop"
  /\ \E outcome \in CreateOutcomes, content \in ModelContents :
       last' = Attempt(last, outcome, content)
  /\ UNCHANGED index
  /\ UNCHANGED <<handlerVars, cacheVars, raceVars>>

\* ------------------------------------------- retrieval and context assembly
MaxExpanded == 4

SEARCH_TOP_K == 7

CANDIDATE_CAP == 10

RERANK_TOP_K == 7

\* The texts of the units of the index searched.  chunk_text emits no empty
\* unit, so no text is empty.
AllTexts ==
  << "unit 01", "unit 02", "unit 03", "unit 04", "unit 05", "unit 06",
     "unit 07", "unit 08", "unit 09", "unit 10", "unit 11", "unit 12" >>

Texts == { AllTexts[i] : i \in 1..Len(AllTexts) }

PlaceOf(text) == CHOOSE i \in 1..Len(AllTexts) : AllTexts[i] = text

\* What one call of vector_store.search(q, top_k=7) may return: at most
\* seven texts, none for an index without embeddings; two units of the index
\* may have the same text.
SearchResults ==
  { <<>>,
    <<"unit 03">>,
    <<"unit 01", "unit 01", "unit 02">>,
    SubSeq(AllTexts, 1, SEARCH_TOP_K),
    SubSeq(AllTexts, 4, 3 + SEARCH_TOP_K),
    SubSeq(AllTexts, 6, 5 + SEARCH_TOP_K) }

AllRephrasings ==
  <<"rephrased 1", "the question", "rephrased 2", "rephrased 3", "rephrased 4">>

\* The lists the expansion step hands on for the question: expand puts the
\* question first (WithOriginal); a rephrasing may repeat the question.
ExpandedLists ==
  { WithOriginal("the question", SubSeq(AllRephrasings, 1, n)) : n \in 0..MaxExpanded }

\* What the reranker's model may score the texts: every text another score,
\* rising or falling with the place, or two texts each score.
ScoreTables ==
  { [t \in Texts |-> PlaceOf(t)],
    [t \in Texts |-> 0 - PlaceOf(t)],
    [t \in Texts |-> (PlaceOf(t) + 1) \div 2] }

RECURSIVE Concatenated(_)
Concatenated(results) ==
  IF results = <<>> THEN <<>> ELSE results[1] \o Concatenated(Tail(results))

\* The texts of a list, each with the number of times it is in the list.
BagOf(list) ==
  [t \in { list[i] : i \in 1..Len(list) } |->
     Cardinality({ i \in 1..Len(list) : list[i] = t })]

RECURSIVE BagSize(_)
\* len() of a list held as a bag
BagSize(bag) ==
  IF DOMAIN bag = {} THEN 0
  ELSE LET t == CHOOSE u \in DOMAIN bag : TRUE
       IN bag[t] + BagSize([u \in DOMAIN bag \ {t} |-> bag[u]])

\* The results are kept in a list, with their repetitions.
RetrievedCandidatesWithRepeats(results) ==
  { BagOf(SubSeq(Concatenated(results), 1, Min(CANDIDATE_CAP, Len(Concatenated(results))))) }

\* all_retrieved_chunks.update(retrieved) for every result, then
\* list(all_retrieved_chunks)[:10] (src/core/rag_pipeline.py:90-95).  list()
\* gives the texts in the order of the set's hash table, which follows the
\* hashes of the strings in this process: any order, and of more than ten
\* texts any ten.  retrieved_list is held as a bag, the texts and how many
\* times each is in the list, and not with its order.
RetrievedCandidates(results) ==
  LET all_retrieved_chunks ==
        UNION { { results[i][j] : j \in 1..Len(results[i]) } : i \in 1..Len(results) }
      kept == Min(CANDIDATE_CAP, Cardinality(all_retrieved_chunks))
  IN { [t \in K |-> 1] : K \in { L \in SUBSET all_retrieved_chunks : Cardinality(L) = kept } }

RECURSIVE RerankedAnyOrder(_, _, _)
\* What Reranker.rerank (src/core/reranker.py:19-47) returns for the
\* candidates in whatever order the list has them: the sort by descending
\* score is stable, so candidates of one score come out in the order of the
\* list, which is any order.  The next document is any candidate left that
\* no candidate left outscores.
RerankedAnyOrder(candidates, score_of, top_k) ==
  IF top_k = 0 \/ DOMAIN candidates = {} THEN { <<>> }
  ELSE LET left == DOMAIN candidates
           best == { t \in left : \A u \in left : score_of[u] <= score_of[t] }
           Without(t) == IF candidates[t] = 1
                           THEN [u \in left \ {t} |-> candidates[u]]
                           ELSE [candidates EXCEPT ![t] = @ - 1]
       IN UNION { { <<t>> \o rest : rest \in RerankedAnyOrder(Without(t), score_of, top_k - 1) } :
                  t \in best }

ContextSeparator == "\n\n---\n\n"

RECURSIVE JoinedWithoutSeparator(_)
JoinedWithoutSeparator(units) ==
  IF units = <<>> THEN <<>> ELSE <<units[1]>> \o JoinedWithoutSeparator(Tail(units))

RECURSIVE JoinedContext(_)
\* "\n\n---\n\n".join(reranked_chunks) (src/core/rag_pipeline.py:106): the
\* units with the separator between every two.
JoinedContext(units) ==
  IF units = <<>> THEN <<>>
  ELSE IF Len(units) = 1 THEN <<units[1]>>
  ELSE <<units[1], ContextSeparator>> \o JoinedContext(Tail(units))

\* Retrieval, reranking and the context handed to get_answer
\* (src/core/rag_pipeline.py:89-107).  found[i] is what the i-th search
\* returns.  retrieved_list is a bag: the order of the list is any order.
retrieve_and_assemble(question, expanded_questions, found, score_of) ==
  /\ LET searched == SearchedQueries(expanded_questions)
         results == [i \in 1..Len(searched) |-> found[i]]
     IN \E retrieved_list \in RetrievedCandidates(results) :
          \E reranked_chunks \in RerankedAnyOrder(retrieved_list, score_of, RERANK_TOP_K) :
            last' = [fn |-> "retrieve", question |-> question,
                     expanded_questions |-> expanded_questions,
                     searched |-> searched, results |-> results,
                     retrieved_list |-> retrieved_list,
                     rerank_query |-> question,
                     reranked_chunks |-> reranked_chunks,
                     context |-> JoinedContext(reranked_chunks)]
  /\ UNCHANGED index
  /\ UNCHANGED <<handlerVars, cacheVars, raceVars>>

RetrieveCall ==
  /\ last = NoCall
  /\ \E expanded_questions \in ExpandedLists, found \in [1..3 -> SearchResults],
        score_of \in ScoreTables :
       retrieve_and_assemble(expanded_questions[1], expanded_questions, found, score_of)

InitStages == InitCache

NextStages ==
  \/ GetAnswerCall
  \/ GetAnswerAttempt
  \/ RetrieveCall

SpecStages == InitStages /\ [][NextStages]_vars

\* ------------------------------------------------------------ segmentation
MaxBlocks == 2

\* What a cell of an extracted table holds: a text, or None.
Cells == { <<"a">>, None, <<"Alpha", ".", SP, "Beta", ".">> }

\* str(cell) if cell is not None else ""
CellText(cell) == IF cell = None THEN <<>> ELSE cell

RECURSIVE JoinCells(_)
\* " | ".join(cells)
JoinCells(cells) ==
  IF cells = <<>> THEN <<>>
  ELSE IF Len(cells) = 1 THEN cells[1]
  ELSE cells[1] \o <<SP, "|", SP>> \o JoinCells(Tail(cells))

\* "| " + " | ".join(row_data) + " |\n"
MarkdownRow(row_data) == <<"|", SP>> \o JoinCells(row_data) \o <<SP, "|", "\n">>

RECURSIVE MarkdownRows(_)
MarkdownRows(rows) ==
  IF rows = <<>> THEN <<>>
  ELSE MarkdownRow([j \in 1..Len(rows[1]) |-> CellText(rows[1][j])])
         \o MarkdownRows(Tail(rows))

\* _table_to_markdown (src/document_loader.py:16-24): the header row, the
\* row of "---" and the other rows.
table_to_markdown(table_data) ==
  LET header == [j \in 1..Len(table_data[1]) |-> CellText(table_data[1][j])]
  IN MarkdownRow(header)
       \o MarkdownRow([j \in 1..Len(header) |-> <<"---">>])
       \o MarkdownRows(Tail(table_data))

\* The tables found on a page: table.extract() of a table with at least one
\* row (src/document_loader.py:38).
\* The last one has a header without columns, the one before it rows of
\* other lengths than the header.
Tables ==
  [1..1 -> [1..1 -> Cells]]
  \cup { << <<<<"a">>, None>>, <<<<"Alpha", ".", SP, "Beta", ".">>, <<"a">>>> >>,
         << <<<<"a">>, <<"a">>, <<"a">>>>, <<None>>, <<>> >>,
         << <<>> >> }

TableBlocks == { table_to_markdown(t) : t \in Tables }

\* The text blocks of a page.
TextBlocks ==
  { <<>>, <<SP>>, <<"\n", SP, "\n">>,
    <<"Alpha">>,
    <<SP, "Alpha", SP, "beta", ".", "\n">>,
    <<"Alpha", SP, "beta", SP, "gamma", SP, "delta", SP, "epsilon", ".">>,
    <<"Alpha", ".", SP, "Beta", ".">>,
    <<"\n", "Alpha", ".", SP, "Beta", ".", SP, "Gamma", ".", SP>>,
    <<"Alpha", ".", SP, "Beta", ".", "\n", "Gamma", ".", SP, "Delta", ".">>,
    <<"|", SP, "Alpha", ".", SP, "Beta", ".">> }

Blocks == TextBlocks \cup TableBlocks

BlockLists == UNION { [1..n -> Blocks] : n \in 0..MaxBlocks }

\* The cosine similarities of adjacent sentences, in hundredths, as the
\* embedding model may give them: by the place of the pair in the block.
SimTables ==
  { [i \in 1..3 |-> 50],
    [i \in 1..3 |-> 20 * i],
    [i \in 1..3 |-> 90 - 20 * i],
    [i \in 1..3 |-> IF i = 2 THEN 10 ELSE 80] }

\* No block is taken for a table.
IsTableNever(chunk) == FALSE

\* chunk.startswith('|') and chunk.endswith('|')
IsTable(chunk) == chunk[1] = "|" /\ chunk[Len(chunk)] = "|"

RECURSIVE SentSplit(_, _, _)
SentSplit(rest, current, acc) ==
  IF rest = <<>>
    THEN IF Strip(current) = <<>> THEN acc ELSE Append(acc, Strip(current))
  ELSE IF rest[1] = "." /\ Len(rest) > 1 /\ IsSpace(rest[2])
    THEN SentSplit(Tail(rest), <<>>, Append(acc, Strip(Append(current, "."))))
  ELSE SentSplit(Tail(rest), Append(current, rest[1]), acc)

\* nltk.sent_tokenize: a sentence ends at a full stop that whitespace
\* follows; the sentences come without the whitespace around them.
sent_tokenize(chunk) == SentSplit(chunk, <<>>, <<>>)

\* Only a block without a sentence is passed on as it is.
NoSentence(sentences) == Len(sentences) < 1

\* len(sentences) <= 1
AtMostOneSentence(sentences) == Len(sentences) <= 1

RECURSIVE JoinSentences(_)
\* " ".join(sentences)
JoinSentences(sentences) ==
  IF sentences = <<>> THEN <<>>
  ELSE IF Len(sentences) = 1 THEN sentences[1]
  ELSE sentences[1] \o <<SP>> \o JoinSentences(Tail(sentences))

Smallest(a) == CHOOSE x \in { a[i] : i \in 1..Len(a) } : \A i \in 1..Len(a) : x <= a[i]

\* The second element of sorted(a), for a of two elements or more.
SecondSmallest(a) ==
  LET k == CHOOSE i \in 1..Len(a) : a[i] = Smallest(a)
      others == [i \in 1..(Len(a) - 1) |-> IF i < k THEN a[i] ELSE a[i + 1]]
  IN Smallest(others)

\* np.percentile(similarities, 100 - 95.0), times 100: with linear
\* interpolation and at most 21 values, the point 0.05 * (n - 1) of the way
\* from the smallest value to the second smallest.
Threshold100(similarities) ==
  IF Len(similarities) = 1 THEN 100 * similarities[1]
  ELSE 100 * Smallest(similarities)
         + 5 * (Len(similarities) - 1)
             * (SecondSmallest(similarities) - Smallest(similarities))

RECURSIVE GroupLoopAtOrBelow(_, _, _, _, _, _)
\* A group also ends at a similarity equal to the threshold.
GroupLoopAtOrBelow(sentences, similarities, threshold100, i, current_chunk_sentences, out) ==
  IF i > Len(similarities)
    THEN IF current_chunk_sentences # <<>>
           THEN Append(out, JoinSentences(current_chunk_sentences))
           ELSE out
  ELSE IF 100 * similarities[i] <= threshold100
    THEN GroupLoopAtOrBelow(sentences, similarities, threshold100, i + 1,
                            <<sentences[i + 1]>>,
                            Append(out, JoinSentences(current_chunk_sentences)))
  ELSE GroupLoopAtOrBelow(sentences, similarities, threshold100, i + 1,
                          Append(current_chunk_sentences, sentences[i + 1]), out)

RECURSIVE GroupLoop(_, _, _, _, _, _)
\* The grouping loop (src/text_processor.py:160-170).
GroupLoop(sentences, similarities, threshold100, i, current_chunk_sentences, out) ==
  IF i > Len(similarities)
    THEN IF current_chunk_sentences # <<>>
           THEN Append(out, JoinSentences(current_chunk_sentences))
           ELSE out
  ELSE IF 100 * similarities[i] < threshold100
    THEN GroupLoop(sentences, similarities, threshold100, i + 1, <<sentences[i + 1]>>,
                   Append(out, JoinSentences(current_chunk_sentences)))
  ELSE GroupLoop(sentences, similarities, threshold100, i + 1,
                 Append(current_chunk_sentences, sentences[i + 1]), out)

NotBlank(t) == Strip(t) # <<>>

\* One pass of the loop of chunk_text over the blocks
\* (src/text_processor.py:117-170): the units the block adds to final_chunks,
\* and whether the sentence splitter and the embedding provider were called
\* for it.  A failed embedding call gives zero vectors, whose cosine
\* similarity is 0.
ChunkBlock(block, sim_at, embed_fails) ==
  LET chunk == Strip(block)
      nothing == [units |-> <<>>, tokenized |-> FALSE, embedded |-> FALSE]
  IN IF chunk = <<>> THEN nothing
     ELSE IF IsTable(chunk) THEN [nothing EXCEPT !.units = <<chunk>>]
     ELSE LET sentences == sent_tokenize(chunk)
              valid_texts == SelectSeq(sentences, NotBlank)
              similarities == [i \in 1..(Len(valid_texts) - 1) |->
                                 IF embed_fails THEN 0 ELSE sim_at[i]]
          IN IF AtMostOneSentence(sentences)
               THEN [nothing EXCEPT !.units = <<chunk>>, !.tokenized = TRUE]
             ELSE IF valid_texts = <<>>
               THEN [nothing EXCEPT !.tokenized = TRUE, !.embedded = TRUE]
             ELSE IF similarities = <<>>
               THEN [units |-> <<JoinSentences(sentences)>>, tokenized |-> TRUE,
                     embedded |-> TRUE]
             ELSE [units |-> GroupLoop(sentences, similarities,
                                       Threshold100(similarities), 1,
                                       <<sentences[1]>>, <<>>),
                   tokenized |-> TRUE, embedded |-> TRUE]

RECURSIVE AllUnits(_)
AllUnits(per_block) ==
  IF per_block = <<>> THEN <<>> ELSE per_block[1].units \o AllUnits(Tail(per_block))

NotEmpty(c) == c # <<>>

\* chunk_text (src/text_processor.py:87-173)
chunk_text(semantic_chunks, sim_at, embed_fails) ==
  /\ LET per_block == [i \in 1..Len(semantic_chunks) |->
                         ChunkBlock(semantic_chunks[i], sim_at, embed_fails)]
     IN last' = [fn |-> "chunk_text", semantic_chunks |-> semantic_chunks,
                 sim_at |-> sim_at, embed_fails |-> embed_fails,
                 per_block |-> per_block,
                 result |-> SelectSeq(AllUnits(per_block), NotEmpty)]
  /\ UNCHANGED index
  /\ UNCHANGED <<handlerVars, cacheVars, raceVars>>

ChunkCall ==
  /\ last = NoCall
  /\ \E semantic_chunks \in BlockLists, sim_at \in SimTables, embed_fails \in BOOLEAN :
       chunk_text(semantic_chunks, sim_at, embed_fails)

InitChunk == InitCache

NextChunk == ChunkCall

SpecChunk == InitChunk /\ [][NextChunk]_vars

\* ------------------------------------------------- cache files under threads
\* The answering functions on two worker threads of asyncio.to_thread, for
\* one question against one loaded index or none, with the cancellation of
\* the tasks that wait for them.
FileQuestion == "q1"

\* id(vector_store) of the loaded index: not the 0 that stands for None.
FileStore == NoStoreId + 1

FileDoc == "docA"

\* The two worker threads that run the question.
FileThreads == {1, 2}

\* A process with one index loaded and an empty cache/ directory.
InitFiles ==
  /\ pc = "idle"
  /\ questions = <<>>
  /\ doc_url = ""
  /\ answers = <<>>
  /\ branch = NoBranch
  /\ pdf_content = NoContent
  /\ elapsed = 0
  /\ remaining_time = TOTAL_DEADLINE
  /\ tasks = <<>>
  /\ done = <<>>
  /\ genCalls = 0
  /\ via = "none"
  /\ response = <<>>
  /\ PDF_CACHE = Nothing
  /\ disk_cache = Nothing
  /\ proc = 0
  /\ stores = Put(Nothing, FileStore, FileDoc)
  /\ files = Nothing
  /\ expansion_files = Nothing
  /\ calls = [t \in Threads |-> IdleThread]
  /\ RaceStart
  /\ PartsStart

NextFiles ==
  \/ \E t \in FileThreads, fn \in {"one", "gk"}, vs \in {FileStore, NoStoreId} :
       StartCall(t, fn, FileQuestion, vs, FileDoc)
  \/ \E t \in FileThreads : CheckCaches(t)
  \/ \E t \in FileThreads : GkGenerate(t)
  \/ \E t \in FileThreads : ExpandCheck(t)
  \/ \E t \in FileThreads : ExpandInvoke(t)
  \/ \E t \in FileThreads : ExpandReturns(t)
  \/ \E t \in FileThreads : ExpansionDump(t)
  \/ \E t \in FileThreads : Retrieve(t)
  \/ \E t \in FileThreads : Generate(t)
  \/ \E t \in FileThreads : AnswerOpen(t)
  \/ \E t \in FileThreads : AnswerDump(t)
  \/ \E t \in FileThreads : Cancel(t)

SpecFiles == InitFiles /\ [][NextFiles]_vars

\* ------------------------------------------------- documents and their keys
\* The index caches and the upload cache by the documents themselves: a
\* document is its page count, the first word of its first page (as its
\* characters) and the rest of its content.
DocumentsOfRun ==
  { [pages |-> 70, first_word |-> <<"P", "o", "l">>, body |-> "A"],
    [pages |-> 70, first_word |-> <<"P", "o", "l">>, body |-> "B"],
    [pages |-> 70, first_word |-> <<"P", "o", "l", ":">>, body |-> "C"],
    [pages |-> 5, first_word |-> <<"P", "o", "l">>, body |-> "D"],
    [pages |-> 5, first_word |-> <<"P", "o", "l">>, body |-> "E"] }

NoDocument == [pages |-> -1, first_word |-> <<>>, body |-> ""]

\* c.isalnum()
isalnum(c) == c \in {"P", "o", "l"}

\* cache_manager._get_cache_filepath: f"{page_count}_{safe_word}.pkl"
get_cache_filepath(key) == <<key[1], SelectSeq(key[2], isalnum)>>

\* cache_manager.load_from_cache(key) on the pdf_cache/ directory
load_from_cache(disk, key) ==
  IF get_cache_filepath(key) \in DOMAIN disk THEN disk[get_cache_filepath(key)]
  ELSE NoStore

\* rag_pipeline.setup_pipeline_from_content(pdf_content): the index of this
\* content.
BuiltStore(content) == [store |-> <<content.pages, content.first_word, content.body>>]

\* genai.upload_file of a temporary file with this content.
UploadedFile(content) == [file |-> content.body]

NoUpload == [file |-> ""]

\* A request slot that holds no request.
IdleDocRequest ==
  [pc |-> "idle", content |-> NoDocument, vector_store |-> NoStore, route |-> "none",
   uploaded_file |-> NoUpload, uploads |-> 0]

DocFrame ==
  UNCHANGED <<questions, doc_url, branch, pdf_content, elapsed, remaining_time,
              answers, tasks, done, genCalls, via, response, cacheVars, partVars>>

\* initialize_cache_from_json handles one URL of query.json
\* (src/processing/preprocessor.py:24-60).
Preprocess(pdf) ==
  /\ pc = "startup"
  /\ LET cache_key == get_cache_key_from_content(pdf)
         loaded == load_from_cache(disk_cache, cache_key)
         vector_store == IF loaded = NoStore THEN BuiltStore(pdf) ELSE loaded
     IN /\ disk_cache' = IF loaded = NoStore
                           THEN Put(disk_cache, get_cache_filepath(cache_key), vector_store)
                           ELSE disk_cache
        /\ PDF_CACHE' = Put(PDF_CACHE, cache_key, vector_store)
  /\ UNCHANGED <<pc, requests, UPLOADED_FILE_CACHE>>
  /\ DocFrame

\* on_startup has returned (src/app.py:124-130).
StartupDone ==
  /\ pc = "startup"
  /\ pc' = "serving"
  /\ UNCHANGED <<PDF_CACHE, disk_cache, requests, UPLOADED_FILE_CACHE>>
  /\ DocFrame

\* A request for a question-answer PDF arrives and awaits the download, the
\* classification and the page count (src/app.py:214-228).
DocArrive(r, pdf) ==
  /\ pc = "serving"
  /\ requests[r].pc = "idle"
  /\ requests' = [requests EXCEPT ![r] = [IdleDocRequest EXCEPT !.pc = "counted",
                                                                !.content = pdf]]
  /\ UNCHANGED <<pc, PDF_CACHE, disk_cache, UPLOADED_FILE_CACHE>>
  /\ DocFrame

\* From the page count to the next await (src/app.py:231-329).
DocLookup(r) ==
  /\ requests[r].pc = "counted"
  /\ LET page_count == requests[r].content.pages
         cache_key == get_cache_key_from_content(requests[r].content)
         vector_store == IF cache_key \in DOMAIN PDF_CACHE THEN PDF_CACHE[cache_key]
                         ELSE load_from_cache(disk_cache, cache_key)
     IN IF page_count < PAGE_LIMIT /\ page_count \notin EXCEPTIONS
          THEN /\ requests' = [requests EXCEPT ![r].pc = "short", ![r].route = "short"]
               /\ UNCHANGED PDF_CACHE
        ELSE IF vector_store = NoStore
          THEN /\ requests' = [requests EXCEPT ![r].pc = "short",
                                               ![r].route = "index-miss"]
               /\ UNCHANGED PDF_CACHE
        ELSE /\ PDF_CACHE' = InsertIfAbsent(PDF_CACHE, cache_key, vector_store)
             /\ requests' = [requests EXCEPT ![r].pc = "answering", ![r].route = "rag",
                                             ![r].vector_store = vector_store]
  /\ UNCHANGED <<pc, disk_cache, UPLOADED_FILE_CACHE>>
  /\ DocFrame

\* handle_short_document after its download: UPLOADED_FILE_CACHE.get(cache_key)
\* up to the await of the upload or of the answers
\* (src/short_file_llm.py:152-172).
ShortCheck(r) ==
  /\ requests[r].pc = "short"
  /\ LET cache_key == get_cache_key_from_content(requests[r].content)
     IN requests' = [requests EXCEPT ![r] =
                       IF cache_key \in DOMAIN UPLOADED_FILE_CACHE
                         THEN [@ EXCEPT !.uploaded_file = UPLOADED_FILE_CACHE[cache_key],
                                        !.pc = "answering"]
                       ELSE [@ EXCEPT !.pc = "uploading"]]
  /\ UNCHANGED <<pc, PDF_CACHE, disk_cache, UPLOADED_FILE_CACHE>>
  /\ DocFrame

\* genai.upload_file returns and the file is stored
\* (src/short_file_llm.py:164-172).
UploadReturns(r) ==
  /\ requests[r].pc = "uploading"
  /\ LET cache_key == get_cache_key_from_content(requests[r].content)
         uploaded_file == UploadedFile(requests[r].content)
     IN /\ UPLOADED_FILE_CACHE' = Put(UPLOADED_FILE_CACHE, cache_key, uploaded_file)
        /\ requests' = [requests EXCEPT ![r].uploaded_file = uploaded_file,
                                        ![r].uploads = @ + 1, ![r].pc = "answering"]
  /\ UNCHANGED <<pc, PDF_CACHE, disk_cache>>
  /\ DocFrame

\* The answer tasks are done and the request returns.
DocReturns(r) ==
  /\ requests[r].pc = "answering"
  /\ requests' = [requests EXCEPT ![r].pc = "returned"]
  /\ UNCHANGED <<pc, PDF_CACHE, disk_cache, UPLOADED_FILE_CACHE>>
  /\ DocFrame

\* A process at the start of on_startup with an empty pdf_cache/ directory.
InitDocs ==
  /\ pc = "startup"
  /\ questions = <<>>
  /\ doc_url = ""
  /\ answers = <<>>
  /\ branch = NoBranch
  /\ pdf_content = NoContent
  /\ elapsed = 0
  /\ remaining_time = TOTAL_DEADLINE
  /\ tasks = <<>>
  /\ done = <<>>
  /\ genCalls = 0
  /\ via = "none"
  /\ response = <<>>
  /\ PDF_CACHE = Nothing
  /\ disk_cache = Nothing
  /\ CacheStart
  /\ requests = [r \in Requests |-> IdleDocRequest]
  /\ UPLOADED_FILE_CACHE = Nothing
  /\ PartsStart

NextDocs ==
  \/ \E pdf \in DocumentsOfRun : Preprocess(pdf)
  \/ StartupDone
  \/ \E r \in Requests, pdf \in DocumentsOfRun : DocArrive(r, pdf)
  \/ \E r \in Requests : DocLookup(r)
  \/ \E r \in Requests : ShortCheck(r)
  \/ \E r \in Requests : UploadReturns(r)
  \/ \E r \in Requests : DocReturns(r)

SpecDocs == InitDocs /\ [][NextDocs]_vars

\* ------------------------------------------------------------------ claims
Returned == pc = "returned"

\* The request ran a fan-out of answer tasks and has returned.
FanOutReturned ==
  /\ Returned
  /\ branch \in {"rag", "short", "index-miss", "pptx"}
  /\ tasks # <<>>

\* What slot i must hold after the fan-out: the outcome of task i when
\* asyncio.wait found it done, the timeout sentinel otherwise.
Expected(i) == IF InSeq(i, done) THEN Outcome(tasks[i]) ELSE Sentinel

\* C1: every response carries exactly one answer per question, on every
\* branch and for every outcome of the per-question work.
C1_LengthInvariant == Returned => Len(response) = Len(questions)

\* C2: after the fan-out of the RAG answering phase and of
\* handle_short_document, slot i of the answers holds the result, the error
\* string or the timeout sentinel of the task created for questions[i],
\* whatever the order in which the tasks completed.
C2_AnswersAligned ==
  FanOutReturned =>
    /\ Len(answers) = Len(questions)
    /\ Len(tasks) = Len(questions)
    /\ \A i \in 1..Len(questions) : answers[i] = Expected(i)

\* C2 witness: a RAG request returned after task 2 completed before task 1,
\* with different outcomes.
C2_Witness ==
  /\ FanOutReturned
  /\ branch = "rag"
  /\ Len(done) = 2
  /\ done[1] = 2
  /\ Outcome(tasks[1]) # Outcome(tasks[2])

\* C3: when the budget expires during the RAG answering phase, every task
\* still pending is cancelled and its slot, in the answers and in the
\* response, holds the timeout sentinel; the wait can return whatever the
\* workers are doing.
C3_TimeoutSentinel ==
  /\ (Returned /\ branch = "rag") =>
       \A i \in 1..Len(tasks) :
         ~InSeq(i, done) =>
           /\ tasks[i].cancelled
           /\ answers[i] = Sentinel
           /\ response[i] = Sentinel
  /\ pc = "answering" => ENABLED WaitReturns

\* C3 witness: a RAG request has returned while a cancelled worker is still
\* in its generation call.
C3_Witness ==
  /\ Returned
  /\ branch = "rag"
  /\ \E i \in 1..Len(tasks) :
       /\ ~InSeq(i, done)
       /\ tasks[i].cancelled
       /\ tasks[i].status = "generating"
       /\ response[i] = Sentinel

\* C4: an exception of the task of question i becomes the error string in
\* slot i alone; every other slot holds what its own task produced, and the
\* request still returns one answer per question.
C4_ErrorIsolated ==
  (Returned /\ branch = "rag") =>
    \A i \in 1..Len(tasks) :
      (InSeq(i, done) /\ tasks[i].status = "exc") =>
        /\ answers[i] = ErrorString(tasks[i].value)
        /\ Len(response) = Len(questions)
        /\ \A j \in (1..Len(tasks)) \ {i} :
             /\ (InSeq(j, done) /\ tasks[j].status = "ok") => answers[j] = tasks[j].value
             /\ ~InSeq(j, done) => answers[j] = Sentinel

\* C4 witness: task 1 failed, task 2 succeeded, both within the budget.
C4_Witness ==
  /\ Returned
  /\ branch = "rag"
  /\ Len(tasks) = 2
  /\ InSeq(1, done) /\ tasks[1].status = "exc"
  /\ InSeq(2, done) /\ tasks[2].status = "ok"
  /\ answers[2] = tasks[2].value

\* C5: when the PDF cannot be downloaded, every answer is an explicit error
\* answer and none is the timeout sentinel.
C5_DownloadFailureIsError ==
  (Returned /\ branch = "download_failed") =>
    \A i \in 1..Len(response) : response[i] # Sentinel

\* C6: with no budget left at the start of the answering phase, no answer
\* task is created, no generation call is made, and every answer is the
\* timeout sentinel.
C6_NoBudgetNoWork ==
  (branch = "rag" /\ remaining_time <= 0) =>
    /\ Returned
    /\ tasks = <<>>
    /\ genCalls = 0
    /\ response = Repeat(Sentinel, Len(questions))

\* C6 witness: a request with two questions reached the answering phase with
\* exactly no budget left.
C6_Witness ==
  /\ Returned
  /\ branch = "rag"
  /\ remaining_time = 0
  /\ Len(questions) = 2
  /\ response = Repeat(Sentinel, 2)

\* ------------------------------------------- claims on the answer caches
\* A call that has returned, and one that was given a vector store.
HasReturned(call) == call.at = "returned"

WithStore(call) == call.fn = "one" /\ call.vs # NoStoreId

\* The cache keys a call with a vector store looks up.
KeysUsed(call) ==
  { gk_cache_path(call.question), rag_cache_path(call.question, call.vs) }

\* C7: two calls with the same question and with vector stores built from
\* different documents look up no common answer-cache key, and a call with a
\* vector store never returns an answer that was cached for a question about
\* another document.
C7_KeysSeparateDocuments ==
  /\ \A t, u \in Threads :
       ( /\ WithStore(calls[t]) /\ WithStore(calls[u])
         /\ calls[t].at # "start" /\ calls[u].at # "start"
         /\ calls[t].question = calls[u].question
         /\ calls[t].doc # calls[u].doc )
       => KeysUsed(calls[t]) \cap KeysUsed(calls[u]) = {}
  /\ \A t \in Threads :
       (HasReturned(calls[t]) /\ WithStore(calls[t]) /\ calls[t].hit # NoFile)
       => calls[t].hit.doc = calls[t].doc

\* The RAG answer files of a question, under whatever store identity.
RagPathsOf(question) == { rag_cache_path(question, a) : a \in Addrs }

\* C8: when a RAG answer was cached for a question and a document, in this
\* process run or in an earlier one, a process that has loaded the index of
\* that document finds the answer under the key it computes for the question
\* and the loaded index.
C8_KeySurvivesRestart ==
  \A a \in DOMAIN stores : \A q \in CacheQuestions :
    (\E path \in RagPathsOf(q) \cap DOMAIN files : files[path].doc = stores[a])
    => /\ rag_cache_path(q, a) \in DOMAIN files
       /\ files[rag_cache_path(q, a)].doc = stores[a]

\* C9: a call that returns a cached answer returns one stored by its own
\* path: with a vector store an answer the RAG path stored, on the
\* general-knowledge path an answer the general-knowledge path stored.
C9_CachedOnOwnPath ==
  \A t \in Threads :
    (HasReturned(calls[t]) /\ calls[t].hit # NoFile)
    => /\ WithStore(calls[t]) => calls[t].hit.by = "rag"
       /\ ~WithStore(calls[t]) => calls[t].hit.by = "gk"

\* C10: a call with a vector store that finds the RAG answer which this
\* process stored for its question and its store returns that answer, and
\* calls neither expand, search, rerank nor get_answer.
C10_RagHitIsTerminal ==
  \A t \in Threads :
    ( /\ HasReturned(calls[t]) /\ WithStore(calls[t])
      /\ calls[t].ragAtCheck # NoFile
      /\ calls[t].ragAtCheck.proc = calls[t].proc )
    => /\ calls[t].result = calls[t].ragAtCheck.text
       /\ calls[t].nExpand = 0 /\ calls[t].nSearch = 0
       /\ calls[t].nRerank = 0 /\ calls[t].nGen = 0

\* ------------------------------------------------ claims C11 and C12
\* C11: a request for a PDF whose index is in neither cache returns either
\* with the index built and stored in PDF_CACHE and in the disk cache, or
\* with its questions answered on the general-knowledge path.
C11_MissBuildsIndex ==
  (Returned /\ branch = "index-miss")
  => \/ /\ get_cache_key_from_content(pdf_content) \in DOMAIN PDF_CACHE
        /\ get_cache_key_from_content(pdf_content) \in DOMAIN disk_cache
     \/ via = "gk"

\* A call on the general-knowledge route that found no cached answer.
GkRouteMiss(call) ==
  HasReturned(call) /\ ~WithStore(call) /\ call.hit = NoFile

\* C12: a call on the general-knowledge route that finds no cached
\* general-knowledge answer makes no search and no rerank, makes exactly one
\* get_answer call, with empty context, and at its return its result is in
\* the general-knowledge cache file of the question.
C12_GkRouteOneGeneration ==
  [][\A t \in Threads :
       GkRouteMiss(calls'[t])
       => /\ calls'[t].nSearch = 0 /\ calls'[t].nRerank = 0
          /\ calls'[t].nGen = 1
          /\ calls'[t].result \in GenResults("", calls'[t].question)
          /\ ~HasReturned(calls[t])
             => /\ gk_cache_path(calls'[t].question) \in DOMAIN files'
                /\ files'[gk_cache_path(calls'[t].question)].text = calls'[t].result
                /\ files'[gk_cache_path(calls'[t].question)].by = "gk"]_vars

\* Both functions of the general-knowledge route have answered without a
\* cached answer: two calls that raced past the cache check.
C12_Witness ==
  /\ GkRouteMiss(calls[1]) /\ calls[1].fn = "gk"
  /\ GkRouteMiss(calls[2]) /\ calls[2].fn = "one" /\ calls[2].vs = NoStoreId

\* ------------------------------------------------------------ claim C13
\* A request that has come to the index lookup (its document is not short)
\* and has returned.
LookedUpAndReturned(r) ==
  /\ requests[r].pc = "returned"
  /\ requests[r].route # "short"

\* C13: whenever a request that came to the index lookup has returned,
\* whatever other requests for the same document did in between, PDF_CACHE
\* has the entry of the document's key and the request answered against that
\* index.
C13_RacingRequestsShareIndex ==
  \A r \in Requests :
    LookedUpAndReturned(r)
    => /\ get_cache_key_from_content(requests[r].content) \in DOMAIN PDF_CACHE
       /\ requests[r].vector_store =
            PDF_CACHE[get_cache_key_from_content(requests[r].content)]

\* ------------------------------------------- claims on the vector store
\* C14: after build_index the store has one embedding per chunk, and the
\* i-th embedding is the vector of the i-th chunk (the provider's, or the
\* zero vector when its batch failed), whatever the chunks are.
C14_IndexAligned ==
  /\ Len(index.embeddings) = Len(index.chunks)
  /\ \A i \in 1..Len(index.chunks) :
       index.embeddings[i] \in {ProviderVector(index.chunks[i]), ZeroVector}

\* The texts build_index sent to the provider.
SentTexts == SelectSeq(index.chunks, Sendable)

\* The consecutive slices of at most BATCH_SIZE texts.
Slice(texts, b) ==
  SubSeq(texts, (b - 1) * BATCH_SIZE + 1, Min(b * BATCH_SIZE, Len(texts)))

\* C15: the texts are sent in consecutive batches of at most BATCH_SIZE; the
\* positions of a batch whose call failed hold one zero vector of dimension
\* 1536 each, every other position holds the provider's vector of its text,
\* and build_index completes.
C15_FailedBatchZeroFilled ==
  last.fn = "build_index"
  => /\ Len(last.batches) * BATCH_SIZE >= Len(SentTexts)
     /\ (Len(last.batches) - 1) * BATCH_SIZE < Len(SentTexts) \/ SentTexts = <<>>
     /\ \A b \in 1..Len(last.batches) :
          /\ last.batches[b] = Slice(SentTexts, b)
          /\ Len(last.batches[b]) \in 1..BATCH_SIZE
     /\ Len(index.embeddings) = Len(SentTexts)
     /\ \A p \in 1..Len(index.embeddings) :
          /\ index.embeddings[p].dim = 1536
          /\ index.embeddings[p] =
               IF BatchNo(p - 1) \in last.failing THEN ZeroVector
               ELSE ProviderVector(SentTexts[p])

\* Three batches were sent and the call for the second one failed.
C15_Witness ==
  /\ last.fn = "build_index"
  /\ Len(last.batches) = 3
  /\ last.failing = {2}
  /\ Len(index.embeddings) = 2 * BATCH_SIZE + 1

\* A search that returned, on an index with one embedding per chunk.
SearchReturned ==
  /\ last.fn = "search"
  /\ last.raised = ""
  /\ Len(index.embeddings) = Len(index.chunks)

\* The positions of the index that a search result does not hold.
NotSelected == (1..Len(index.chunks)) \ { last.indices[i] : i \in 1..Len(last.indices) }

\* C16: search returns min(top_k, n) chunks, those of highest similarity to
\* the query, in non-increasing order of similarity.
C16_SearchTopK ==
  SearchReturned
  => /\ Len(last.result) = Min(last.top_k, Len(index.chunks))
     /\ \A i, j \in 1..Len(last.indices) :
          i < j => last.similarities[last.indices[i]] >= last.similarities[last.indices[j]]
     /\ \A i \in 1..Len(last.indices) : \A m \in NotSelected :
          last.similarities[m] <= last.similarities[last.indices[i]]

\* C17: among chunks of equal similarity, search selects and returns the
\* earlier chunks of the document first.
C17_SearchTiesInDocumentOrder ==
  (SearchReturned /\ last.top_k >= 1)
  => /\ \A i, j \in 1..Len(last.indices) :
          (i < j /\ last.similarities[last.indices[i]] = last.similarities[last.indices[j]])
          => last.indices[i] < last.indices[j]
     /\ \A i \in 1..Len(last.indices) : \A m \in NotSelected :
          last.similarities[m] = last.similarities[last.indices[i]]
          => last.indices[i] < m

\* ------------------------------- claims on the reranker and the expander
\* C18: rerank returns min(top_k, len(candidates)) units, each one of the
\* candidates; none for top_k = 0; and none, without a call of the scoring
\* model, for an empty candidate list.
C18_RerankTopKBound ==
  last.fn = "rerank"
  => /\ Len(last.result) = Min(last.top_k, Len(last.documents))
     /\ \A i \in 1..Len(last.result) :
          /\ last.picked[i].at \in 1..Len(last.documents)
          /\ last.result[i] = last.documents[last.picked[i].at]
     /\ \A i, j \in 1..Len(last.picked) : i # j => last.picked[i].at # last.picked[j].at
     /\ last.top_k = 0 => last.result = <<>>
     /\ last.documents = <<>> => (last.result = <<>> /\ last.predict_calls = 0)

\* Fewer candidates than top_k, and more than one of them.
C18_Witness ==
  /\ last.fn = "rerank"
  /\ last.top_k = 3
  /\ Len(last.documents) = 2
  /\ Len(last.result) = 2

\* C19: the units rerank returns are in non-increasing order of score, equal
\* scores in candidate order, and no candidate left out has a higher score
\* than a returned one, nor an equal score and an earlier position.
C19_RerankOrder ==
  last.fn = "rerank"
  => /\ \A i, j \in 1..Len(last.picked) :
          i < j => \/ last.picked[i].score > last.picked[j].score
                   \/ /\ last.picked[i].score = last.picked[j].score
                      /\ last.picked[i].at < last.picked[j].at
     /\ \A i \in 1..Len(last.picked) : last.picked[i].score = last.scores[last.picked[i].at]
     /\ \A i \in 1..Len(last.picked) :
          \A m \in (1..Len(last.documents)) \ { last.picked[k].at : k \in 1..Len(last.picked) } :
            \/ last.scores[m] < last.picked[i].score
            \/ /\ last.scores[m] = last.picked[i].score
               /\ last.picked[i].at < m

\* Two returned units have the same score and a third a higher one.
C19_Witness ==
  /\ last.fn = "rerank"
  /\ Len(last.picked) = 3
  /\ last.picked[1].score > last.picked[2].score
  /\ last.picked[2].score = last.picked[3].score
  /\ last.picked[1].at = 3

\* C20: when expand returns, its result is not empty and starts with the
\* query as it was given.
C20_ExpandKeepsQuery ==
  (last.fn = "expand" /\ ~last.raised)
  => /\ Len(last.result) >= 1
     /\ last.result[1] = last.query

\* The model gave three rephrasings.
C20_Witness ==
  /\ last.fn = "expand"
  /\ last.reply.kind = "list"
  /\ Len(last.result) = 4
  /\ last.result[1] = last.query

\* C21: whenever the model call behind expand does not give a list of
\* rephrasings (the request fails, the fields are missing, the text is not
\* JSON or not a list, or the body has another shape), expand does not raise
\* and returns just the query.
C21_ExpandFailsToQuery ==
  (last.fn = "expand" /\ last.reply.kind # "list")
  => /\ ~last.raised
     /\ last.result = <<last.query>>

\* C22: when expand raises inside the pipeline, nothing is written to the
\* expansion cache and the call goes on with the question alone; it then
\* makes exactly one search, with the original question, reranks once and,
\* by the time it returns, has generated once.
C22_ExpandRaiseContinues ==
  [][\A t \in Threads :
       calls'[t].expandRaised
       => /\ ~calls[t].expandRaised
             => /\ expansion_files' = expansion_files
                /\ calls'[t].at = "retrieve"
                /\ calls'[t].expanded = <<calls'[t].question>>
          /\ calls'[t].at \in {"generate", "rag_open", "rag_dump", "returned"}
             => /\ calls'[t].searched = <<calls'[t].question>>
                /\ calls'[t].nSearch = 1
                /\ calls'[t].nRerank = 1
          /\ calls'[t].at = "returned"
             => /\ calls'[t].nGen = 1
                /\ calls'[t].result \in GenResults(calls'[t].doc, calls'[t].question)]_vars

\* A call whose expansion raised has returned and the expansion cache holds
\* no entry for its question.
C22_Witness ==
  \E t \in Threads :
    /\ calls[t].at = "returned"
    /\ calls[t].expandRaised
    /\ calls[t].searched = <<calls[t].question>>
    /\ expansion_cache_path(calls[t].question) \notin DOMAIN expansion_files

\* C23: a run of the expansion step that finds an entry for its question in
\* the expansion cache takes the list the entry holds, leaves the entry as it
\* is and does not call expand, so that the next run obtains the same list.
C23_WarmExpansionCache ==
  [][\A t \in Threads :
       LET path == expansion_cache_path(calls[t].question)
       IN (/\ calls[t].at = "expand"
           /\ calls'[t].at \notin {"expand", "idle"}
           /\ path \in DOMAIN expansion_files
           /\ LoadableList(expansion_files[path]))
          => /\ calls'[t].at = "retrieve"
             /\ calls'[t].expanded = expansion_files[path]
             /\ calls'[t].nExpand = calls[t].nExpand
             /\ expansion_files' = expansion_files]_vars

\* A call of the second process run took the list an earlier call had
\* written, without a call of expand, searched its questions, and the entry
\* is as the call found it.
C23_Witness ==
  \E t \in Threads :
    LET path == expansion_cache_path(calls[t].question)
    IN /\ calls[t].at = "returned"
       /\ calls[t].fromCache
       /\ calls[t].proc = MaxRestarts
       /\ calls[t].nExpand = 0
       /\ Len(calls[t].searched) = 3
       /\ path \in DOMAIN expansion_files
       /\ calls[t].searched = SearchedQueries(expansion_files[path])

RagStages == <<"expansion", "search", "rerank", "generation", "cache write">>

\* C26: a call on the RAG path that finds no cached answer goes through
\* expansion, search, rerank, generation and the cache write in this order;
\* the reranker gets the original question, the answer is generated exactly
\* once, and at the return the rag_answer_ file of the question and vector
\* store holds the answer returned.
C26_RagStagesInOrder ==
  [][\A t \in Threads :
       /\ calls'[t].stages = SubSeq(RagStages, 1, Len(calls'[t].stages))
       /\ (/\ calls'[t].fn = "one"
           /\ calls'[t].vs # NoStoreId
           /\ calls'[t].at = "returned"
           /\ calls'[t].hit = NoFile)
          => /\ calls'[t].stages = RagStages
             /\ calls'[t].rerankQuery = calls'[t].question
             /\ calls'[t].nRerank = 1
             /\ calls'[t].nGen = 1
             /\ calls[t].at = "rag_dump"
                => LET path == rag_cache_path(calls'[t].question, calls'[t].vs)
                   IN /\ path \in DOMAIN files'
                      /\ files'[path].text = calls'[t].result
                      /\ files'[path].by = "rag"]_vars

\* A call has gone through the stages with a list of four expanded questions.
C26_Witness ==
  \E t \in Threads :
    /\ calls[t].at = "returned"
    /\ calls[t].stages = RagStages
    /\ Len(calls[t].searched) = 3
    /\ calls[t].rerankQuery = calls[t].question
    /\ rag_cache_path(calls[t].question, calls[t].vs) \in DOMAIN files

\* ------------------------------------- claims on generation and retrieval
\* C24: get_answer returns an error string in place of an answer only after
\* max_retries attempts, each failed attempt before the last being followed
\* by a sleep that doubles from initial_wait, whether the attempt failed on
\* the rate limit or on another API error.
C24_ErrorsRetriedToCeiling ==
  (/\ last.fn = "get_answer"
   /\ last.at = "returned"
   /\ last.outcomes # <<>>
   /\ last.outcomes[Len(last.outcomes)] # "ok")
  => /\ Len(last.outcomes) = max_retries
     /\ \A k \in 1..(max_retries - 1) : last.waits[k] = initial_wait * Pow2(k - 1)

\* C25: the searches made for a question are those of the first three
\* expanded questions, one each and in their order, the original question
\* among them; the list handed to the reranker has no text twice, at most
\* ten entries, and only texts that one of these searches returned.
C25_SearchesAndCandidates ==
  last.fn = "retrieve"
  => /\ Len(last.searched) = Min(3, Len(last.expanded_questions))
     /\ \A i \in 1..Len(last.searched) : last.searched[i] = last.expanded_questions[i]
     /\ Len(last.results) = Len(last.searched)
     /\ \E i \in 1..Len(last.searched) : last.searched[i] = last.question
     /\ BagSize(last.retrieved_list) <= 10
     /\ \A t \in DOMAIN last.retrieved_list : last.retrieved_list[t] = 1
     /\ \A t \in DOMAIN last.retrieved_list :
          \E k \in 1..Len(last.results) :
            \E j \in 1..Len(last.results[k]) :
              last.results[k][j] = t

\* Five expanded questions, three searches that returned twelve different
\* texts between them, one text more than once, and ten candidates.
C25_Witness ==
  /\ last.fn = "retrieve"
  /\ Len(last.expanded_questions) = 5
  /\ Len(last.searched) = 3
  /\ BagSize(last.retrieved_list) = 10
  /\ \E j \in 1..Len(last.results[2]) :
       \E i \in 1..Len(last.results[1]) : last.results[1][i] = last.results[2][j]
  /\ Cardinality(UNION { { last.results[k][j] : j \in 1..Len(last.results[k]) } :
                         k \in 1..3 }) = 12

\* C27: the context handed to get_answer is made of the units the reranker
\* returned, in the reranker's order, with the "---" separator between every
\* two of them; it has at most seven units and is empty only when the
\* reranker returned nothing.
C27_ContextIsJoinedRerank ==
  last.fn = "retrieve"
  => LET n == Len(last.reranked_chunks)
     IN /\ n <= 7
        /\ Len(last.context) = (IF n = 0 THEN 0 ELSE 2 * n - 1)
        /\ \A i \in 1..n : last.context[2 * i - 1] = last.reranked_chunks[i]
        /\ \A i \in 1..(n - 1) : last.context[2 * i] = "\n\n---\n\n"
        /\ (last.context = <<>>) <=> (last.reranked_chunks = <<>>)
        /\ \A i \in 1..n : last.reranked_chunks[i] \in DOMAIN last.retrieved_list

\* Ten candidates were reranked, seven units make the context, and the
\* reranker put a later text of the index before an earlier one.
C27_Witness ==
  /\ last.fn = "retrieve"
  /\ BagSize(last.retrieved_list) = 10
  /\ Len(last.reranked_chunks) = 7
  /\ Len(last.context) = 13
  /\ PlaceOf(last.reranked_chunks[1]) > PlaceOf(last.reranked_chunks[2])

\* -------------------------------------------------- claims on segmentation
\* The blocks of the call at which chunk_text found a table.
IsRenderedTable(block) == \E t \in Tables : block = table_to_markdown(t)

Units(i) == last.per_block[i].units

\* C28: a block that _table_to_markdown rendered starts and ends with "|"
\* once stripped, and chunk_text emits it as exactly one unit, the stripped
\* block, whatever its length, without a call of the sentence splitter or of
\* the embedding provider for it.
C28_TableIsOneUnit ==
  last.fn = "chunk_text"
  => \A i \in 1..Len(last.semantic_chunks) :
       LET block == last.semantic_chunks[i]
       IN IsRenderedTable(block)
          => /\ Strip(block)[1] = "|"
             /\ Strip(block)[Len(Strip(block))] = "|"
             /\ Units(i) = <<Strip(block)>>
             /\ ~last.per_block[i].tokenized
             /\ ~last.per_block[i].embedded
             /\ \E k \in 1..Len(last.result) : last.result[k] = Strip(block)

\* A table of two rows with a cell of two sentences came after a block of
\* text that was split.
C28_Witness ==
  /\ last.fn = "chunk_text"
  /\ Len(last.semantic_chunks) = 2
  /\ Len(Units(1)) = 2
  /\ IsRenderedTable(last.semantic_chunks[2])
  /\ Len(last.semantic_chunks[2]) > 20
  /\ Len(sent_tokenize(Strip(last.semantic_chunks[2]))) > 1
  /\ Len(Units(2)) = 1

MaxChunkSize == 8

\* C29: with the segmenter set to a chunk_size C (here MaxChunkSize), every
\* unit that is not a table has at most C characters.  A token of the model
\* stands for one character or more, so a unit of more than C tokens has
\* more than C characters.
C29_UnitsWithinChunkSize ==
  last.fn = "chunk_text"
  => \A i \in 1..Len(last.semantic_chunks) :
       ~IsRenderedTable(last.semantic_chunks[i])
       => \A k \in 1..Len(Units(i)) : Len(Units(i)[k]) <= MaxChunkSize

\* C30: chunk_text emits no unit for a block that is empty or whitespace
\* only; a block of text with at most one sentence gives exactly one unit,
\* the stripped block, without a call of the embedding provider.
C30_BlankAndShortBlocks ==
  last.fn = "chunk_text"
  => \A i \in 1..Len(last.semantic_chunks) :
       LET block == last.semantic_chunks[i]
       IN /\ Strip(block) = <<>>
             => /\ Units(i) = <<>>
                /\ ~last.per_block[i].embedded
                /\ Len(last.result) = Len(AllUnits(last.per_block))
          /\ (Strip(block) # <<>> /\ Len(sent_tokenize(Strip(block))) <= 1)
             => /\ Units(i) = <<Strip(block)>>
                /\ ~last.per_block[i].embedded

\* A whitespace-only block and a padded block of one sentence gave one unit
\* between them.
C30_Witness ==
  /\ last.fn = "chunk_text"
  /\ Len(last.semantic_chunks) = 2
  /\ last.semantic_chunks[1] # <<>>
  /\ Strip(last.semantic_chunks[1]) = <<>>
  /\ last.semantic_chunks[2] # Strip(last.semantic_chunks[2])
  /\ Strip(last.semantic_chunks[2]) # <<>>
  /\ ~IsTable(Strip(last.semantic_chunks[2]))
  /\ last.per_block[2].tokenized
  /\ last.result = <<Strip(last.semantic_chunks[2])>>

\* ----------------------------------------------- claims C31 and following
\* C31: a search leaves chunks and embeddings as they are; only build_index
\* changes them, and a build on a store that has an index leaves exactly the
\* new chunks in it, with one embedding for every chunk that was sent.
C31_SearchLeavesIndex ==
  [][/\ last'.fn = "search" => index' = index
     /\ index' # index => last'.fn = "build_index"
     /\ (last'.fn = "build_index" /\ last' # last)
        => /\ index'.chunks = last'.chunks
           /\ Len(index'.embeddings) = Len(SelectSeq(last'.chunks, Sendable))
           /\ last'.before = index]_vars

\* A store of three chunks was built again with one chunk, and searched.
C31_WitnessRebuilt ==
  /\ last.fn = "build_index"
  /\ Len(last.before.chunks) = 3
  /\ Len(last.before.embeddings) = 3
  /\ index.chunks = <<<<"beta">>>>
  /\ Len(index.embeddings) = 1

\* C32: a cache file, once it is there, stays there through every later step,
\* the cancellation of the question's task included; a worker that was
\* cancelled while generating still writes its answer file, and a later call
\* that finds the finished file returns its text without generating.
C32_EntriesStay ==
  [][/\ DOMAIN files \subseteq DOMAIN files'
     /\ DOMAIN expansion_files \subseteq DOMAIN expansion_files'
     /\ \A t \in FileThreads :
          /\ (calls[t].at \in {"rag_dump", "gk_dump"} /\ calls'[t].at # calls[t].at)
             => /\ AnswerPath(calls[t]) \in DOMAIN files'
                /\ files'[AnswerPath(calls[t])].text = calls[t].answer
                /\ calls'[t].cancelled = calls[t].cancelled
          /\ (calls[t].at \in {"generate", "gk_generate"} /\ calls[t].cancelled
              /\ calls'[t].at # calls[t].at)
             => calls'[t].at \in {"rag_open", "gk_open"}
          /\ (calls[t].at = "start" /\ calls[t].fn = "one" /\ calls[t].vs = FileStore
              /\ ~is_cached_gk(files, calls[t].question)
              /\ rag_cache_path(calls[t].question, calls[t].vs) \in DOMAIN files
              /\ Loadable(files[rag_cache_path(calls[t].question, calls[t].vs)])
              /\ calls'[t].at # calls[t].at)
             => /\ calls'[t].at = "returned"
                /\ calls'[t].nGen = 0
                /\ calls'[t].result =
                     files[rag_cache_path(calls[t].question, calls[t].vs)].text]_vars

\* A cancelled worker has written the RAG answer file and the other thread's
\* later call has been served from it.
C32_WitnessServedAfterCancel ==
  /\ calls[1].at = "returned" /\ calls[1].cancelled /\ calls[1].nGen = 1
  /\ calls[1].vs = FileStore /\ calls[1].fn = "one"
  /\ calls[2].at = "returned" /\ calls[2].nGen = 0 /\ calls[2].vs = FileStore
  /\ calls[2].hit # NoFile /\ calls[2].hit.by = "rag"
  /\ calls[2].result = calls[1].result

\* C33: no answer file holds one of the error strings of get_answer.
C33_NoErrorInAnswerCache ==
  \A path \in DOMAIN files : files[path].text \notin ErrorAnswers

\* C34: no call ends in the EOFError of a cache file that another thread has
\* opened for writing and not yet written.
C34_NoPartialRead ==
  \A t \in FileThreads : ~(calls[t].at = "raised" /\ calls[t].result = "EOFError")

\* C38: every list expand returns is written to the expansion file, and
\* expand is not entered while the expansion file of the question exists.
C38_ExpandOnlyWithoutEntry ==
  [][\A t \in FileThreads :
       /\ (calls[t].at = "expansion_dump" /\ calls'[t].at # calls[t].at)
          => expansion_files'[expansion_cache_path(calls[t].question)] = calls[t].expanded
       /\ (calls[t].at = "expand_call" /\ calls'[t].at # calls[t].at)
          => expansion_cache_path(calls[t].question) \notin DOMAIN expansion_files]_vars

\* C35: a request that answers from an index answers from the index of its
\* own document: two PDFs with different content never share an entry of
\* PDF_CACHE or a file of the disk cache.
C35_OwnIndex ==
  \A r \in Requests :
    requests[r].route = "rag" => requests[r].vector_store = BuiltStore(requests[r].content)

\* C36: for one cache key the file is uploaded at most once, whatever
\* requests run side by side.
C36_OneUploadPerKey ==
  \A r1, r2 \in Requests :
    (/\ requests[r1].uploads > 0 /\ requests[r2].uploads > 0
     /\ get_cache_key_from_content(requests[r1].content)
          = get_cache_key_from_content(requests[r2].content))
    => r1 = r2

\* C37: get_answer returns a string and raises nothing; it calls the
\* completion API at most max_retries times, every call before the last one
\* having hit the rate limit; it returns the stripped content of the first
\* call that succeeds, the rate-limit error string after the fifth rate
\* limit in a row, and the API error string at the first other exception.
C37_GetAnswerReturnsString ==
  last.fn = "get_answer"
  => LET n == Len(last.outcomes)
     IN /\ n <= max_retries
        /\ last.at \in {"loop", "returned"}
        /\ \A k \in 1..(n - 1) : last.outcomes[k] = "RateLimitError"
        /\ last.at = "loop" => (n < max_retries /\ \A k \in 1..n : last.outcomes[k] = "RateLimitError")
        /\ last.at = "returned"
           => /\ last.result # None
              /\ n = 0 => last.result = HardcodedAnswer(last.question, last.has_client)
              /\ (n > 0 /\ last.outcomes[n] = "ok")
                 => last.result \in { Strip(content) : content \in ModelContents }
              /\ (n > 0 /\ last.outcomes[n] = "RateLimitError")
                 => (n = max_retries /\ last.result = RateLimitMessage)
              /\ (n > 0 /\ last.outcomes[n] = "Exception")
                 => last.result = ApiErrorMessage

\* Five rate limits in a row have ended in the error string.
C37_WitnessFifthRateLimit ==
  /\ last.fn = "get_answer" /\ last.at = "returned"
  /\ last.outcomes = <<"RateLimitError", "RateLimitError", "RateLimitError",
                       "RateLimitError", "RateLimitError">>
  /\ last.result = RateLimitMessage

\* C39: a search on a built index raises nothing, whatever the query: an
\* empty or whitespace-only query included.
C39_BlankQuerySearches ==
  (last.fn = "search" /\ index.embeddings # <<>>) => last.raised = ""

\* The sentences of block i of the call, and the similarities the call had
\* for its adjacent sentences.
SentencesOf(i) == sent_tokenize(Strip(last.semantic_chunks[i]))

SimilarityOf(i, k) == IF last.embed_fails THEN 0 ELSE last.sim_at[k]

\* The places k of block i where sentence k and sentence k + 1 are less
\* similar than the threshold of the block.
BoundariesOf(i) ==
  LET n == Len(SentencesOf(i))
      similarities == [k \in 1..(n - 1) |-> SimilarityOf(i, k)]
  IN { k \in 1..(n - 1) : 100 * similarities[k] < Threshold100(similarities) }

\* C40: for a text block of two sentences or more the units are the
\* sentences of the block, each once and in order, in contiguous runs that
\* end exactly at the places where the similarity of two adjacent sentences
\* is strictly below the threshold; also when the embedding call failed.
C40_UnitsAreSentenceRuns ==
  last.fn = "chunk_text"
  => \A i \in 1..Len(last.semantic_chunks) :
       LET chunk == Strip(last.semantic_chunks[i])
           sentences == SentencesOf(i)
           n == Len(sentences)
           ends == BoundariesOf(i) \cup {n}
           EndOf(g) == CHOOSE e \in ends : Cardinality({ x \in ends : x < e }) = g - 1
           StartOf(g) == IF g = 1 THEN 1 ELSE EndOf(g - 1) + 1
       IN (chunk # <<>> /\ ~IsTable(chunk) /\ n >= 2)
          => /\ Len(Units(i)) = Cardinality(ends)
             /\ \A g \in 1..Cardinality(ends) :
                  Units(i)[g] = JoinSentences(SubSeq(sentences, StartOf(g), EndOf(g)))

\* A block of four sentences has been split in two units of two sentences.
C40_WitnessTwoRuns ==
  /\ last.fn = "chunk_text" /\ Len(last.semantic_chunks) >= 1 /\ ~last.embed_fails
  /\ Len(SentencesOf(1)) = 4
  /\ BoundariesOf(1) = {2}
  /\ Units(1) = << <<"Alpha", ".", SP, "Beta", ".">>, <<"Gamma", ".", SP, "Delta", ".">> >>

====
